---------------------------- MODULE Spec2Model ----------------------------
(***************************************************************************)
(* A model of retropad: the text search/replace engine of retropad.c       *)
(* (FindInEdit, ReplaceAllOccurrences), the encoding-aware file I/O layer  *)
(* of file_io.c (DetectEncoding, DecodeToWide, LoadTextFile, the Write*    *)
(* functions, SaveTextFile) and the document handlers that call them.      *)
(*                                                                         *)
(* Text is a sequence of UTF-16 code units (naturals below 65536), a file  *)
(* is a sequence of bytes (naturals below 256).  C pointers into a buffer  *)
(* are 0-based offsets; NULL is the offset -1.                             *)
(***************************************************************************)
EXTENDS Integers, Sequences, FiniteSets, TLC

(***************************************************************************)
(* Bounds of the model.                                                    *)
(***************************************************************************)
MaxTextLen == 4
MaxNeedleLen == 2
MaxReplLen == 2
MaxFileLen == 4
MaxSaveLen == 3
\* Handlers run in one behaviour of the editor.
MaxSteps == 4
\* Length of the texts the four calls are followed on through their buffers.
MaxCallTextLen == 2
\* File sizes: this many from 0 up, below 4 GB and from 4 GB up.
SizeWindow == 20

\* Code units of the search texts: 'A', 'a', 'b'.
WChars == {65, 97, 98}
\* Code unit of the replacement texts: 'B'.
ReplChars == {66}

SeqsUpTo(S, n) == UNION {[1..k -> S] : k \in 0..n}

Texts == SeqsUpTo(WChars, MaxTextLen)
Needles == SeqsUpTo(WChars, MaxNeedleLen)
\* The replacements: "", "B", "BB", ... and "a", which the needles can match.
Replacements == SeqsUpTo(ReplChars, MaxReplLen) \cup {<<97>>}

NULL == -1

\* Bytes of the files: 'A', a continuation byte 0x80, 0xBB, 0xBF, the 2-byte
\* lead 0xC3, the 3-byte leads 0xE0 and 0xEF, 0xFE, 0xFF.
FileBytes == {65, 128, 187, 191, 195, 224, 239, 254, 255}

\* A file longer than the bound: the UTF-16LE mark followed by the UTF-8 mark.
ExampleFiles == {<<255, 254, 239, 187, 191>>}

FileContents == SeqsUpTo(FileBytes, MaxFileLen) \cup ExampleFiles

\* Code units of the texts to save: 'A', U+00E9, U+20AC, U+FEFF, and the
\* surrogate pair D83D DE00 of U+1F600.
SaveChars == {65, 233, 8364, 65279, 55357, 56832}
SaveTexts == SeqsUpTo(SaveChars, MaxSaveLen)

Paths == {"a.txt", "b.txt"}
NoFile == [exists |-> FALSE, bytes |-> <<>>]
FileOf(bytes) == [exists |-> TRUE, bytes |-> bytes]

(***************************************************************************)
(* C library and Win32 string helpers.                                     *)
(***************************************************************************)

\* CharLowerBuffW on one code unit: 'A'..'Z' map to 'a'..'z'.
CharLower(c) == IF c \in 65..90 THEN c + 32 ELSE c

\* CharLowerBuffW(buf, len): lowercases the buffer, one code unit for one.
CharLowerBuffW(buf) == [i \in 1..Len(buf) |-> CharLower(buf[i])]

\* wcsstr comparing the first code unit of strSearch only.
RECURSIVE wcsstrFirstUnit(_, _, _)
wcsstrFirstUnit(str, from, strSearch) ==
    IF Len(strSearch) = 0 THEN from
    ELSE IF from >= Len(str) THEN NULL
    ELSE IF str[from + 1] = strSearch[1] THEN from
    ELSE wcsstrFirstUnit(str, from + 1, strSearch)

\* wcsstr(str + from, strSearch): the offset in str of the first place at or
\* after `from` where strSearch begins, NULL when there is none.  An empty
\* strSearch matches at once.  Scans left to right as the library does.
RECURSIVE wcsstr(_, _, _)
wcsstr(str, from, strSearch) ==
    IF Len(strSearch) = 0 THEN from
    ELSE IF from + Len(strSearch) > Len(str) THEN NULL
    ELSE IF SubSeq(str, from + 1, from + Len(strSearch)) = strSearch THEN from
    ELSE wcsstr(str, from + 1, strSearch)

(***************************************************************************)
(* FindInEdit (retropad.c).  failAt names the HeapAlloc call that fails:   *)
(* 0 none, 1 the text buffer of GetEditText, 2 needleBuf.                  *)
(***************************************************************************)

\* FindBackwardLoop with the bound test off by one (idx <= startPos).
RECURSIVE FindBackwardLoopInclusive(_, _, _, _, _)
FindBackwardLoopInclusive(haystack, needleBuf, p, startPos, found) ==
    LET q == wcsstr(haystack, p, needleBuf) IN
    IF q = NULL THEN found
    ELSE IF q <= startPos
         THEN FindBackwardLoopInclusive(haystack, needleBuf, q + 1, startPos, q)
    ELSE found

\* The backward loop: keeps the last match that starts before startPos.
RECURSIVE FindBackwardLoop(_, _, _, _, _)
FindBackwardLoop(haystack, needleBuf, p, startPos, found) ==
    LET q == wcsstr(haystack, p, needleBuf) IN
    IF q = NULL THEN found
    ELSE IF q < startPos THEN FindBackwardLoop(haystack, needleBuf, q + 1, startPos, q)
    ELSE found

\* The wrap loop of the backward search: keeps the last match from p on.
RECURSIVE FindWrapLoop(_, _, _, _)
FindWrapLoop(haystack, needleBuf, p, found) ==
    LET q == wcsstr(haystack, p, needleBuf) IN
    IF q = NULL THEN found
    ELSE FindWrapLoop(haystack, needleBuf, q + 1, q)

\* FindForward without the wrap to the beginning.
FindForwardNoWrap(haystack, needleBuf, startPos) ==
    wcsstr(haystack, startPos, needleBuf)

\* The forward branch: from startPos to the end, then from the beginning.
FindForward(haystack, needleBuf, startPos) ==
    LET first == wcsstr(haystack, startPos, needleBuf) IN
    IF first = NULL /\ startPos > 0 THEN wcsstr(haystack, 0, needleBuf) ELSE first

\* The backward branch: the last match before startPos, else the last one
\* from startPos on.
FindBackward(haystack, needleBuf, startPos) ==
    LET before == FindBackwardLoop(haystack, needleBuf, 0, startPos, NULL) IN
    IF before = NULL /\ startPos < Len(haystack)
    THEN FindWrapLoop(haystack, needleBuf, startPos, NULL)
    ELSE before

\* The clamp of the start position to the text length.
ClampStart(startPos, len) == IF startPos > len THEN len ELSE startPos

\* The whole function.  outStart0/outEnd0 are the caller's values of the out
\* parameters before the call; `outcome` names the path taken (the C return
\* value is `ret` alone).
\* FindInEdit storing 0 in *outStart and *outEnd when the needle is empty.
FindInEditClearsOutput(text, needle, matchCase, searchDown, startPos0, outStart0, outEnd0, failAt) ==
    LET miss(why) == [ret |-> FALSE, outStart |-> outStart0, outEnd |-> outEnd0,
                      outcome |-> why]
    IN
    IF Len(needle) = 0
    THEN [ret |-> FALSE, outStart |-> 0, outEnd |-> 0, outcome |-> "empty_needle"]
    ELSE IF failAt = 1 \/ failAt = 2 THEN miss("alloc_failed")
    ELSE
      LET len == Len(text)
          needleLen == Len(needle)
          haystack == IF matchCase THEN text ELSE CharLowerBuffW(text)
          needleBuf == IF matchCase THEN needle ELSE CharLowerBuffW(needle)
          startPos == ClampStart(startPos0, len)
          found == IF searchDown THEN FindForward(haystack, needleBuf, startPos)
                   ELSE FindBackward(haystack, needleBuf, startPos)
      IN
      IF found # NULL
      THEN [ret |-> TRUE, outStart |-> found, outEnd |-> found + needleLen,
            outcome |-> "found"]
      ELSE miss("not_found")

\* The whole function.  outStart0 and outEnd0 are what *outStart and *outEnd
\* hold when it is called.
FindInEdit(text, needle, matchCase, searchDown, startPos0, outStart0, outEnd0, failAt) ==
    LET miss(why) == [ret |-> FALSE, outStart |-> outStart0, outEnd |-> outEnd0,
                      outcome |-> why]
    IN
    IF Len(needle) = 0 THEN miss("empty_needle")
    ELSE IF failAt = 1 \/ failAt = 2 THEN miss("alloc_failed")
    ELSE
      LET len == Len(text)
          needleLen == Len(needle)
          haystack == IF matchCase THEN text ELSE CharLowerBuffW(text)
          needleBuf == IF matchCase THEN needle ELSE CharLowerBuffW(needle)
          startPos == ClampStart(startPos0, len)
          found == IF searchDown THEN FindForward(haystack, needleBuf, startPos)
                   ELSE FindBackward(haystack, needleBuf, startPos)
      IN
      IF found # NULL
      THEN [ret |-> TRUE, outStart |-> found, outEnd |-> found + needleLen,
            outcome |-> "found"]
      ELSE miss("not_found")

(***************************************************************************)
(* ReplaceAllOccurrences (retropad.c).  failAt: 0 none, 1 the text buffer  *)
(* of GetEditText, 2 searchBuf, 3 needleBuf, 4 result.                     *)
(***************************************************************************)

\* CountOccurrences resuming one code unit after each match (p++).
RECURSIVE CountOccurrencesOverlapping(_, _, _)
CountOccurrencesOverlapping(searchBuf, p, needleBuf) ==
    LET q == wcsstr(searchBuf, p, needleBuf) IN
    IF q = NULL THEN 0
    ELSE 1 + CountOccurrencesOverlapping(searchBuf, q + 1, needleBuf)

\* First pass: counts the matches, resuming needleLen after each.
RECURSIVE CountOccurrences(_, _, _)
CountOccurrences(searchBuf, p, needleBuf) ==
    LET q == wcsstr(searchBuf, p, needleBuf) IN
    IF q = NULL THEN 0
    ELSE 1 + CountOccurrences(searchBuf, q + Len(needleBuf), needleBuf)

\* BuildResult copying the unmatched spans from searchBuf instead of text.
RECURSIVE BuildResultFromSearchBuf(_, _, _, _, _, _)
BuildResultFromSearchBuf(text, searchBuf, needleBuf, replacement, cur, dst) ==
    LET p == wcsstr(searchBuf, cur, needleBuf) IN
    IF p = NULL
    THEN dst \o SubSeq(searchBuf, cur + 1, Len(searchBuf))
    ELSE BuildResultFromSearchBuf(text, searchBuf, needleBuf, replacement,
                                  p + Len(needleBuf),
                                  dst \o SubSeq(searchBuf, cur + 1, p) \o replacement)

\* Second pass: dst is what has been written so far, cur is the common offset
\* of searchCur in searchBuf and origCur in text.
RECURSIVE BuildResult(_, _, _, _, _, _)
BuildResult(text, searchBuf, needleBuf, replacement, cur, dst) ==
    LET p == wcsstr(searchBuf, cur, needleBuf) IN
    IF p = NULL
    THEN dst \o SubSeq(text, cur + 1, Len(text))
    ELSE BuildResult(text, searchBuf, needleBuf, replacement,
                     p + Len(needleBuf),
                     dst \o SubSeq(text, cur + 1, p) \o replacement)

\* ResultLength leaving the replacements out.
ResultLengthNoReplacement(len, count, needleLen, replLen) ==
    len - count * needleLen

\* The length the result buffer is allocated for (without the terminator).
ResultLength(len, count, needleLen, replLen) ==
    len - count * needleLen + count * replLen

\* ReplaceAllOccurrences setting the text and the modify flag when the needle
\* is empty.
ReplaceAllOccurrencesCommitsEmpty(text, needle, replacement, matchCase, failAt) ==
    LET none(why) == [ret |-> 0, committed |-> FALSE, result |-> text,
                      newLen |-> 0, outcome |-> why]
    IN
    IF Len(needle) = 0
    THEN [ret |-> 0, committed |-> TRUE, result |-> text, newLen |-> Len(text),
          outcome |-> "empty_needle"]
    ELSE IF failAt \in {1, 2, 3} THEN none("alloc_failed")
    ELSE
      LET len == Len(text)
          needleLen == Len(needle)
          replLen == Len(replacement)
          searchBuf == IF matchCase THEN text ELSE CharLowerBuffW(text)
          needleBuf == IF matchCase THEN needle ELSE CharLowerBuffW(needle)
          count == CountOccurrences(searchBuf, 0, needleBuf)
      IN
      IF count = 0 THEN none("no_occurrence")
      ELSE IF failAt = 4 THEN none("alloc_failed")
      ELSE [ret |-> count, committed |-> TRUE,
            result |-> BuildResult(text, searchBuf, needleBuf, replacement, 0, <<>>),
            newLen |-> ResultLength(len, count, needleLen, replLen),
            outcome |-> "replaced"]

\* The whole function.  `committed` is whether SetWindowTextW, EM_SETMODIFY
\* and g_app.modified = TRUE were reached; `ret` is the C return value.
ReplaceAllOccurrences(text, needle, replacement, matchCase, failAt) ==
    LET none(why) == [ret |-> 0, committed |-> FALSE, result |-> text,
                      newLen |-> 0, outcome |-> why]
    IN
    IF Len(needle) = 0 THEN none("empty_needle")
    ELSE IF failAt \in {1, 2, 3} THEN none("alloc_failed")
    ELSE
      LET len == Len(text)
          needleLen == Len(needle)
          replLen == Len(replacement)
          searchBuf == IF matchCase THEN text ELSE CharLowerBuffW(text)
          needleBuf == IF matchCase THEN needle ELSE CharLowerBuffW(needle)
          count == CountOccurrences(searchBuf, 0, needleBuf)
      IN
      IF count = 0 THEN none("no_occurrence")
      ELSE IF failAt = 4 THEN none("alloc_failed")
      ELSE [ret |-> count, committed |-> TRUE,
            result |-> BuildResult(text, searchBuf, needleBuf, replacement, 0, <<>>),
            newLen |-> ResultLength(len, count, needleLen, replLen),
            outcome |-> "replaced"]

(***************************************************************************)
(* file_io.c: encodings and the Win32 conversions it calls.                *)
(***************************************************************************)
ENC_UTF8 == 1
ENC_UTF16LE == 2
ENC_UTF16BE == 3
ENC_ANSI == 4

\* A UTF-8 continuation byte, 10xxxxxx.
IsContinuation(b) == b >= 128 /\ b < 192

\* The UTF-16 code units of a code point.
CodeUnits(cp) ==
    IF cp < 65536 THEN <<cp>>
    ELSE <<55296 + ((cp - 65536) \div 1024), 56320 + ((cp - 65536) % 1024)>>

\* Utf8Step without the shortest-form, surrogate and range checks.
Utf8StepLax(data, i) ==
    LET size == Len(data)
        b0 == data[i + 1]
        cont(k) == i + k < size /\ IsContinuation(data[i + k + 1])
        cv(k) == data[i + k + 1] - 128
    IN
    IF b0 < 128 THEN [ok |-> TRUE, n |-> 1, cp |-> b0]
    ELSE IF b0 >= 192 /\ b0 < 224 /\ cont(1)
    THEN [ok |-> TRUE, n |-> 2, cp |-> (b0 - 192) * 64 + cv(1)]
    ELSE IF b0 >= 224 /\ b0 < 240 /\ cont(1) /\ cont(2)
    THEN [ok |-> TRUE, n |-> 3, cp |-> (b0 - 224) * 4096 + cv(1) * 64 + cv(2)]
    ELSE IF b0 >= 240 /\ b0 < 248 /\ cont(1) /\ cont(2) /\ cont(3)
    THEN [ok |-> TRUE, n |-> 4,
          cp |-> (b0 - 240) * 262144 + cv(1) * 4096 + cv(2) * 64 + cv(3)]
    ELSE [ok |-> FALSE, n |-> 1, cp |-> 0]

\* One step of the CP_UTF8 decoder at offset i of data: the bytes consumed,
\* the code point read and whether the sequence is well formed (complete,
\* shortest form, no surrogate, at most U+10FFFF).
Utf8Step(data, i) ==
    LET size == Len(data)
        b0 == data[i + 1]
        cont(k) == i + k < size /\ IsContinuation(data[i + k + 1])
        cv(k) == data[i + k + 1] - 128
    IN
    IF b0 < 128 THEN [ok |-> TRUE, n |-> 1, cp |-> b0]
    ELSE IF b0 >= 192 /\ b0 < 224 /\ cont(1)
    THEN LET cp == (b0 - 192) * 64 + cv(1)
         IN [ok |-> cp >= 128, n |-> 2, cp |-> cp]
    ELSE IF b0 >= 224 /\ b0 < 240 /\ cont(1) /\ cont(2)
    THEN LET cp == (b0 - 224) * 4096 + cv(1) * 64 + cv(2)
         IN [ok |-> cp >= 2048 /\ ~(cp >= 55296 /\ cp <= 57343), n |-> 3, cp |-> cp]
    ELSE IF b0 >= 240 /\ b0 < 248 /\ cont(1) /\ cont(2) /\ cont(3)
    THEN LET cp == (b0 - 240) * 262144 + cv(1) * 4096 + cv(2) * 64 + cv(3)
         IN [ok |-> cp >= 65536 /\ cp <= 1114111, n |-> 4, cp |-> cp]
    ELSE [ok |-> FALSE, n |-> 1, cp |-> 0]

\* The CP_UTF8 conversion from offset i on.  With MB_ERR_INVALID_CHARS
\* (strict) an ill-formed sequence fails the conversion; without it the
\* offending byte becomes U+FFFD and the conversion goes on.
RECURSIVE Utf8ToWide(_, _, _)
Utf8ToWide(data, i, strict) ==
    IF i >= Len(data) THEN [ok |-> TRUE, units |-> <<>>]
    ELSE LET s == Utf8Step(data, i) IN
         IF ~s.ok /\ strict THEN [ok |-> FALSE, units |-> <<>>]
         ELSE LET rest == Utf8ToWide(data, i + (IF s.ok THEN s.n ELSE 1), strict)
              IN [ok |-> rest.ok,
                  units |-> (IF s.ok THEN CodeUnits(s.cp) ELSE <<65533>>) \o rest.units]

\* The active code page, taken to be Windows-1252: 0x80 is the euro sign and
\* every other byte the model uses is the code unit of the same value.
AcpToWide(b) == IF b = 128 THEN 8364 ELSE b

\* MultiByteToWideChar(codePage, flags, data, size, ...): the code units and
\* their count, the count being 0 when the call fails.  A size of 0 fails.
MultiByteToWideChar(codePage, strict, data) ==
    IF Len(data) = 0 THEN [chars |-> 0, units |-> <<>>]
    ELSE IF codePage = "CP_UTF8"
    THEN LET r == Utf8ToWide(data, 0, strict)
         IN IF r.ok THEN [chars |-> Len(r.units), units |-> r.units]
            ELSE [chars |-> 0, units |-> <<>>]
    ELSE [chars |-> Len(data), units |-> [i \in 1..Len(data) |-> AcpToWide(data[i])]]

IsHighSurrogate(u) == u >= 55296 /\ u <= 56319
IsLowSurrogate(u) == u >= 56320 /\ u <= 57343

\* The UTF-8 bytes of a code point.
Utf8Bytes(cp) ==
    IF cp < 128 THEN <<cp>>
    ELSE IF cp < 2048 THEN <<192 + (cp \div 64), 128 + (cp % 64)>>
    ELSE IF cp < 65536
    THEN <<224 + (cp \div 4096), 128 + ((cp \div 64) % 64), 128 + (cp % 64)>>
    ELSE <<240 + (cp \div 262144), 128 + ((cp \div 4096) % 64),
           128 + ((cp \div 64) % 64), 128 + (cp % 64)>>

\* The CP_UTF8 conversion of code units from index i (1-based) on: a
\* surrogate pair is one code point, a lone surrogate becomes U+FFFD.
RECURSIVE WideToUtf8(_, _)
WideToUtf8(text, i) ==
    IF i > Len(text) THEN <<>>
    ELSE IF IsHighSurrogate(text[i]) /\ i < Len(text) /\ IsLowSurrogate(text[i + 1])
    THEN Utf8Bytes(65536 + (text[i] - 55296) * 1024 + (text[i + 1] - 56320))
         \o WideToUtf8(text, i + 2)
    ELSE IF IsHighSurrogate(text[i]) \/ IsLowSurrogate(text[i])
    THEN Utf8Bytes(65533) \o WideToUtf8(text, i + 1)
    ELSE Utf8Bytes(text[i]) \o WideToUtf8(text, i + 1)

\* Windows-1252 of one code unit; what the code page lacks becomes '?'.
WideToAcp(u) ==
    IF u = 8364 THEN 128
    ELSE IF u < 128 \/ (u >= 160 /\ u < 256) THEN u
    ELSE 63

\* WideCharToMultiByte(codePage, 0, text, length, ...): the bytes and their
\* count, the count being 0 when the call fails.  A length of 0 fails.
WideCharToMultiByte(codePage, text) ==
    IF Len(text) = 0 THEN [bytes |-> 0, out |-> <<>>]
    ELSE IF codePage = "CP_UTF8"
    THEN LET b == WideToUtf8(text, 1) IN [bytes |-> Len(b), out |-> b]
    ELSE [bytes |-> Len(text), out |-> [i \in 1..Len(text) |-> WideToAcp(text[i])]]

(***************************************************************************)
(* DetectEncoding (file_io.c).                                             *)
(***************************************************************************)
HasBomUTF16LE(data) == Len(data) >= 2 /\ data[1] = 255 /\ data[2] = 254
HasBomUTF16BE(data) == Len(data) >= 2 /\ data[1] = 254 /\ data[2] = 255
HasBomUTF8(data) == Len(data) >= 3 /\ data[1] = 239 /\ data[2] = 187 /\ data[3] = 191

\* DetectEncoding with the two UTF-16 marks taken for each other.
DetectEncodingSwapped(data) ==
    IF HasBomUTF16LE(data) THEN ENC_UTF16BE
    ELSE IF HasBomUTF16BE(data) THEN ENC_UTF16LE
    ELSE IF HasBomUTF8(data) THEN ENC_UTF8
    ELSE LET wlen == MultiByteToWideChar("CP_UTF8", TRUE, data).chars
         IN IF wlen > 0 THEN ENC_UTF8 ELSE ENC_ANSI

DetectEncoding(data) ==
    IF HasBomUTF16LE(data) THEN ENC_UTF16LE
    ELSE IF HasBomUTF16BE(data) THEN ENC_UTF16BE
    ELSE IF HasBomUTF8(data) THEN ENC_UTF8
    ELSE LET wlen == MultiByteToWideChar("CP_UTF8", TRUE, data).chars
         IN IF wlen > 0 THEN ENC_UTF8 ELSE ENC_ANSI

(***************************************************************************)
(* DecodeToWide (file_io.c).  allocFails: the HeapAlloc of the text buffer *)
(* fails.                                                                  *)
(***************************************************************************)

\* byteOffset of the UTF-16 cases.  They test data[0] and data[1] after the
\* size check, so the buffer holds both.
ByteOffsetUTF16LE(data) == IF data[1] = 255 /\ data[2] = 254 THEN 2 ELSE 0
ByteOffsetUTF16BE(data) == IF data[1] = 254 /\ data[2] = 255 THEN 2 ELSE 0
ByteOffsetUTF8(data) == IF HasBomUTF8(data) THEN 3 ELSE 0

\* CopyMemory of wcharCount little-endian WCHARs from data + byteOffset.
CopyUTF16LE(data, byteOffset, wcharCount) ==
    [i \in 1..wcharCount |->
        data[byteOffset + 2 * (i - 1) + 1] + 256 * data[byteOffset + 2 * (i - 1) + 2]]

\* SwapUTF16BE without the swap.
SwapUTF16BENoSwap(data, byteOffset, wcharCount) ==
    [i \in 1..wcharCount |->
        data[byteOffset + 2 * (i - 1) + 1] + 256 * data[byteOffset + 2 * (i - 1) + 2]]

\* The byte-swapping loop of the big-endian case.
SwapUTF16BE(data, byteOffset, wcharCount) ==
    [i \in 1..wcharCount |->
        (data[byteOffset + 2 * (i - 1) + 1] * 256 + data[byteOffset + 2 * (i - 1) + 2]) % 65536]

DecodeToWide(data, encoding, allocFails) ==
    LET size == Len(data)
        fail == [ret |-> FALSE, text |-> <<>>, length |-> 0]
        done(units) == [ret |-> TRUE, text |-> units, length |-> Len(units)]
    IN
    IF encoding = ENC_UTF16LE
    THEN IF size < 2 THEN fail
         ELSE LET byteOffset == ByteOffsetUTF16LE(data)
                  wcharCount == (size - byteOffset) \div 2
              IN IF allocFails THEN fail
                 ELSE done(CopyUTF16LE(data, byteOffset, wcharCount))
    ELSE IF encoding = ENC_UTF16BE
    THEN IF size < 2 THEN fail
         ELSE LET byteOffset == ByteOffsetUTF16BE(data)
                  wcharCount == (size - byteOffset) \div 2
              IN IF allocFails THEN fail
                 ELSE done(SwapUTF16BE(data, byteOffset, wcharCount))
    ELSE IF encoding = ENC_UTF8
    THEN LET byteOffset == ByteOffsetUTF8(data)
             conv == MultiByteToWideChar("CP_UTF8", FALSE, SubSeq(data, byteOffset + 1, size))
         IN IF conv.chars <= 0 THEN fail
            ELSE IF allocFails THEN fail
            ELSE done(conv.units)
    ELSE LET conv == MultiByteToWideChar("CP_ACP", FALSE, data)
         IN IF conv.chars <= 0 THEN fail
            ELSE IF allocFails THEN fail
            ELSE done(conv.units)

(***************************************************************************)
(* LoadTextFile (file_io.c).  file is what the path holds, fault the step  *)
(* that fails: "none", "open" (CreateFileW), "size" (GetFileSizeEx),       *)
(* "alloc_buffer" (the read buffer), "read" (ReadFile), "alloc_text" (the  *)
(* text buffer).  enc is the local variable of that name, 0 while unset.   *)
(***************************************************************************)
LoadTextFile(file, fault) ==
    LET fail(msg, e) == [ret |-> FALSE, textOut |-> <<>>, lengthOut |-> 0,
                         encodingOut |-> ENC_UTF8, enc |-> e, message |-> msg]
    IN
    IF ~file.exists \/ fault = "open" THEN fail("Unable to open file.", 0)
    ELSE IF fault = "size" THEN fail("Unsupported file size.", 0)
    ELSE IF fault = "alloc_buffer" THEN fail("Out of memory.", 0)
    ELSE IF fault = "read" THEN fail("Failed reading file.", 0)
    ELSE LET buffer == file.bytes
             read == Len(file.bytes)
         IN
         IF read = 0
         THEN IF fault = "alloc_text" THEN fail("", 0)
              ELSE [ret |-> TRUE, textOut |-> <<>>, lengthOut |-> 0,
                    encodingOut |-> ENC_UTF8, enc |-> 0, message |-> ""]
         ELSE LET enc == DetectEncoding(buffer)
                  d == DecodeToWide(buffer, enc, fault = "alloc_text")
              IN IF ~d.ret THEN fail("Unable to decode file.", enc)
                 ELSE [ret |-> TRUE, textOut |-> d.text, lengthOut |-> d.length,
                       encodingOut |-> enc, enc |-> enc, message |-> ""]

(***************************************************************************)
(* The writers and SaveTextFile (file_io.c).  Each writer returns whether  *)
(* it succeeded and what it wrote to the file, which CreateFileW with      *)
(* CREATE_ALWAYS has emptied.  fault is the step that fails: "none",       *)
(* "create" (CreateFileW), "write_bom" (the WriteFile of the mark),        *)
(* "alloc" (the conversion buffer), "write_data" (the WriteFile of the     *)
(* text); a WriteFile that fails is taken to have written nothing.         *)
(***************************************************************************)
WriteUTF8WithBOM(text, fault) ==
    LET bom == <<239, 187, 191>>
        conv == WideCharToMultiByte("CP_UTF8", text)
    IN
    IF fault = "write_bom" THEN [ok |-> FALSE, written |-> <<>>]
    ELSE IF conv.bytes <= 0 THEN [ok |-> FALSE, written |-> bom]
    ELSE IF fault = "alloc" THEN [ok |-> FALSE, written |-> bom]
    ELSE IF fault = "write_data" THEN [ok |-> FALSE, written |-> bom]
    ELSE [ok |-> TRUE, written |-> bom \o conv.out]

\* WideBytes with the high byte first.
WideBytesHighFirst(text) ==
    [k \in 1..(2 * Len(text)) |->
        IF k % 2 = 1 THEN text[(k + 1) \div 2] \div 256 ELSE text[k \div 2] % 256]

\* The bytes of the WCHAR buffer in memory: low byte first.
WideBytes(text) ==
    [k \in 1..(2 * Len(text)) |->
        IF k % 2 = 1 THEN text[(k + 1) \div 2] % 256 ELSE text[k \div 2] \div 256]

WriteUTF16LE(text, fault) ==
    LET bom == <<255, 254>> IN
    IF fault = "write_bom" THEN [ok |-> FALSE, written |-> <<>>]
    ELSE IF fault = "write_data" THEN [ok |-> FALSE, written |-> bom]
    ELSE [ok |-> TRUE, written |-> bom \o WideBytes(text)]

WriteANSI(text, fault) ==
    LET conv == WideCharToMultiByte("CP_ACP", text) IN
    IF conv.bytes <= 0 THEN [ok |-> FALSE, written |-> <<>>]
    ELSE IF fault = "alloc" THEN [ok |-> FALSE, written |-> <<>>]
    ELSE IF fault = "write_data" THEN [ok |-> FALSE, written |-> <<>>]
    ELSE [ok |-> TRUE, written |-> conv.out]

\* SaveTextFile: file is what the path held before.  encoding is the by-value
\* parameter as the function leaves it; the caller's variable is not touched.
SaveTextFile(file, text, encoding0, fault) ==
    IF fault = "create"
    THEN [ret |-> FALSE, file |-> file, encoding |-> encoding0,
          message |-> "Unable to create file."]
    ELSE
      LET w == IF encoding0 = ENC_UTF16LE THEN WriteUTF16LE(text, fault)
               ELSE IF encoding0 = ENC_ANSI THEN WriteANSI(text, fault)
               ELSE WriteUTF8WithBOM(text, fault)
          encoding == IF encoding0 = ENC_UTF16BE THEN ENC_UTF8 ELSE encoding0
      IN [ret |-> w.ok, file |-> [exists |-> TRUE, bytes |-> w.written],
          encoding |-> encoding,
          message |-> IF w.ok THEN "" ELSE "Failed writing file."]

(***************************************************************************)
(* State.                                                                  *)
(***************************************************************************)
VARIABLES
    editText,    \* the text of the edit control g_app.hwndEdit
    editModify,  \* the edit control's modify flag (EM_SETMODIFY/EM_GETMODIFY)
    g_app,       \* the AppState fields the model uses
    disk,        \* the file system: path -> bytes, or NoFile
    call,        \* the last call made: its arguments and what it returned
    editSel,     \* the selection of the edit control (EM_GETSEL/EM_SETSEL)
    win,         \* the windows and the menu: what exists, what is enabled
    registry     \* HKCU\Software\retropad: the values stored, kept across runs

vars == <<editText, editModify, g_app, disk, call, editSel, win, registry>>

\* wWinMain: g_app = {0}, then the defaults it sets.  hFont 0 is no font
\* chosen (the control's default); a dialog handle 0 is NULL; findFlags holds
\* the FR_DOWN and FR_MATCHCASE bits.
AppDefaults ==
    [currentPath |-> "", modified |-> FALSE, encoding |-> ENC_UTF8,
     wordWrap |-> FALSE, statusVisible |-> TRUE, hFont |-> 0,
     hFindDlg |-> 0, hReplaceDlg |-> 0,
     findFlags |-> [down |-> TRUE, matchCase |-> FALSE],
     findText |-> <<>>, replaceText |-> <<>>]

NoCall == [fn |-> "none"]

\* The main window as WM_CREATE leaves it when no setting is stored: the edit
\* control scrolling horizontally (no wrap) in its default font, the status
\* bar shown, the menu as the resource script defines it (Go To enabled), no
\* modeless dialog (findDlg and replaceDlg are the sets of the handles of the
\* Find and Replace dialogs that exist; box is what the user has entered in
\* the boxes of these dialogs, the direction as g_app.findFlags starts).
WinDefaults ==
    [main |-> TRUE, editWraps |-> FALSE, statusShown |-> TRUE, editFont |-> 0,
     gotoItem |-> TRUE, findDlg |-> {}, replaceDlg |-> {},
     box |-> [findWhat |-> <<>>, replaceWith |-> <<>>, down |-> TRUE,
              matchCase |-> FALSE]]

\* The registry of a user who never ran the program: no key.
NoRegistry == [key |-> FALSE, WordWrap |-> 0]

\* The caret at the start, the windows and the registry as above: the part
\* of the state the calls on one function do not read.
ShellAtRest ==
    /\ editSel = <<0, 0>>
    /\ win = WinDefaults
    /\ registry = NoRegistry

ShellUnchanged == UNCHANGED <<editSel, win, registry>>

\* A handler can run: the window exists (and the behaviour is not yet as
\* long as the bound).
Running == win.main /\ call.step < MaxSteps

(***************************************************************************)
(* The buffers and handles of a call.  The events of a call are, in the    *)
(* order of the code, the acquisitions that succeeded (HeapAlloc returning *)
(* a buffer, CreateFileW a handle) and the releases (HeapFree,             *)
(* CloseHandle) on the path the call took; a HeapAlloc that returns NULL   *)
(* acquires nothing.                                                       *)
(***************************************************************************)
Acquire(x) == <<"acquire", x>>
Release(x) == <<"release", x>>

\* FindInEdit: the path is given by the outcome and by the allocation that
\* failed (1 the text of GetEditText, 2 needleBuf).
FindInEditEvents(outcome, failAt) ==
    IF outcome = "empty_needle" THEN <<>>
    ELSE IF failAt = 1 THEN <<>>
    ELSE IF failAt = 2 THEN <<Acquire("text"), Release("text")>>
    ELSE <<Acquire("text"), Acquire("needleBuf"), Release("text"), Release("needleBuf")>>

\* ReplaceAllOccurrences with the count == 0 exit not freeing searchBuf.
ReplaceAllOccurrencesEventsLeak(outcome, failAt) ==
    IF outcome = "empty_needle" THEN <<>>
    ELSE IF failAt = 1 THEN <<>>
    ELSE IF failAt = 2
    THEN <<Acquire("text"), Acquire("needleBuf"), Release("text"), Release("needleBuf")>>
    ELSE IF failAt = 3
    THEN <<Acquire("text"), Acquire("searchBuf"), Release("text"), Release("searchBuf")>>
    ELSE IF outcome = "no_occurrence"
    THEN <<Acquire("text"), Acquire("searchBuf"), Acquire("needleBuf"),
           Release("text"), Release("needleBuf")>>
    ELSE IF outcome = "alloc_failed"
    THEN <<Acquire("text"), Acquire("searchBuf"), Acquire("needleBuf"),
           Release("text"), Release("searchBuf"), Release("needleBuf")>>
    ELSE <<Acquire("text"), Acquire("searchBuf"), Acquire("needleBuf"), Acquire("result"),
           Release("text"), Release("searchBuf"), Release("needleBuf"), Release("result")>>

\* ReplaceAllOccurrences: the allocation that failed is 1 the text of
\* GetEditText, 2 searchBuf, 3 needleBuf, 4 result (reached when count > 0).
\* searchBuf and needleBuf are both asked for before either is tested.
ReplaceAllOccurrencesEvents(outcome, failAt) ==
    IF outcome = "empty_needle" THEN <<>>
    ELSE IF failAt = 1 THEN <<>>
    ELSE IF failAt = 2
    THEN <<Acquire("text"), Acquire("needleBuf"), Release("text"), Release("needleBuf")>>
    ELSE IF failAt = 3
    THEN <<Acquire("text"), Acquire("searchBuf"), Release("text"), Release("searchBuf")>>
    ELSE IF outcome \in {"no_occurrence", "alloc_failed"}
    THEN <<Acquire("text"), Acquire("searchBuf"), Acquire("needleBuf"),
           Release("text"), Release("searchBuf"), Release("needleBuf")>>
    ELSE <<Acquire("text"), Acquire("searchBuf"), Acquire("needleBuf"), Acquire("result"),
           Release("text"), Release("searchBuf"), Release("needleBuf"), Release("result")>>

\* LoadTextFile, r being what it returned: the handle is closed right after
\* ReadFile; the buffer DecodeToWide (or the empty-file branch) allocates is
\* the text handed to the caller.
LoadTextFileEvents(file, fault, r) ==
    IF ~file.exists \/ fault = "open" THEN <<>>
    ELSE IF fault \in {"size", "alloc_buffer"}
    THEN <<Acquire("file"), Release("file")>>
    ELSE IF fault = "read" \/ ~r.ret
    THEN <<Acquire("file"), Acquire("buffer"), Release("file"), Release("buffer")>>
    ELSE <<Acquire("file"), Acquire("buffer"), Release("file"), Acquire("text"),
           Release("buffer")>>

\* The conversion buffer of WriteUTF8WithBOM and WriteANSI: it is allocated
\* when the steps before it succeeded and freed after the WriteFile.
WriterEvents(text, encoding, fault) ==
    IF encoding = ENC_UTF16LE THEN <<>>
    ELSE IF encoding # ENC_ANSI /\ fault = "write_bom" THEN <<>>
    ELSE IF WideCharToMultiByte(IF encoding = ENC_ANSI THEN "CP_ACP" ELSE "CP_UTF8",
                                text).bytes <= 0
    THEN <<>>
    ELSE IF fault = "alloc" THEN <<>>
    ELSE <<Acquire("buffer"), Release("buffer")>>

\* SaveTextFile: the handle of CreateFileW is closed after the writer.
SaveTextFileEvents(text, encoding, fault) ==
    IF fault = "create" THEN <<>>
    ELSE <<Acquire("file")>> \o WriterEvents(text, encoding, fault) \o <<Release("file")>>

(***************************************************************************)
(* SpecFind: FindInEdit applied to every text, needle, case mode,          *)
(* direction, start position and allocation outcome within the bounds.     *)
(***************************************************************************)
\* What the caller's outStart and outEnd hold before the call: 0, as
\* HandleFindReplace sets them, or a value no search stores.
OutBefore == {0, 99}

InitFind ==
    /\ ShellAtRest
    /\ editText \in Texts
    /\ editModify = FALSE
    /\ g_app = AppDefaults
    /\ disk = <<>>
    /\ call = NoCall

CallFindInEdit ==
    /\ call.fn = "none"
    /\ \E needle \in Needles, matchCase \in BOOLEAN, searchDown \in BOOLEAN,
          startPos \in 0..(Len(editText) + 1), out0 \in OutBefore, failAt \in 0..2 :
         \E r \in {FindInEdit(editText, needle, matchCase, searchDown, startPos,
                              out0, out0, failAt)} :
            call' = [fn |-> "FindInEdit", text |-> editText, needle |-> needle,
                     outStart0 |-> out0, outEnd0 |-> out0,
                     matchCase |-> matchCase, searchDown |-> searchDown,
                     startPos |-> startPos, failAt |-> failAt,
                     ret |-> r.ret, outStart |-> r.outStart, outEnd |-> r.outEnd,
                     outcome |-> r.outcome,
                     events |-> FindInEditEvents(r.outcome, failAt)]
    /\ UNCHANGED <<editText, editModify, g_app, disk>>
    /\ ShellUnchanged

NextFind == CallFindInEdit

SpecFind == InitFind /\ [][NextFind]_vars

(***************************************************************************)
(* SpecReplace: ReplaceAllOccurrences applied to every text, needle,       *)
(* replacement, case mode and allocation outcome within the bounds.        *)
(***************************************************************************)
InitReplace ==
    /\ ShellAtRest
    /\ editText \in Texts
    /\ editModify \in BOOLEAN
    /\ g_app = [AppDefaults EXCEPT !.modified = editModify]
    /\ disk = <<>>
    /\ call = NoCall

CallReplaceAllOccurrences ==
    /\ call.fn = "none"
    /\ \E needle \in Needles, replacement \in Replacements, matchCase \in BOOLEAN,
          failAt \in 0..4 :
         \E r \in {ReplaceAllOccurrences(editText, needle, replacement, matchCase, failAt)} :
            /\ editText' = IF r.committed THEN r.result ELSE editText
            /\ editModify' = IF r.committed THEN TRUE ELSE editModify
            /\ g_app' = IF r.committed THEN [g_app EXCEPT !.modified = TRUE] ELSE g_app
            /\ call' = [fn |-> "ReplaceAllOccurrences", text |-> editText,
                        needle |-> needle, replacement |-> replacement,
                        matchCase |-> matchCase, failAt |-> failAt,
                        modifiedBefore |-> g_app.modified,
                        ret |-> r.ret, newLen |-> r.newLen,
                        written |-> IF r.committed THEN Len(r.result) ELSE 0,
                        outcome |-> r.outcome,
                        events |-> ReplaceAllOccurrencesEvents(r.outcome, failAt)]
    /\ UNCHANGED disk
    /\ ShellUnchanged

NextReplace == CallReplaceAllOccurrences

SpecReplace == InitReplace /\ [][NextReplace]_vars

(***************************************************************************)
(* Properties of the search engine.  They are stated over positions of the *)
(* text, independently of the pointer walks of the code.                   *)
(***************************************************************************)

\* The comparison form of a text under a case mode.
Folded(t, matchCase) == IF matchCase THEN t ELSE [i \in 1..Len(t) |-> CharLower(t[i])]

\* The needle occurs in the text at offset i (0-based) under the case mode.
OccursAt(text, needle, matchCase, i) ==
    /\ i >= 0
    /\ i + Len(needle) <= Len(text)
    /\ \A k \in 1..Len(needle) :
         Folded(text, matchCase)[i + k] = Folded(needle, matchCase)[k]

\* The offsets of all occurrences, overlapping ones included.
Occurrences(text, needle, matchCase) ==
    {i \in 0..Len(text) : OccursAt(text, needle, matchCase, i)}

SetMin(S) == CHOOSE x \in S : \A y \in S : x <= y
SetMax(S) == CHOOSE x \in S : \A y \in S : x >= y

\* The starts of the greedy non-overlapping scan: an occurrence is taken when
\* no occurrence taken before it covers its start.
GreedyStarts(text, needle, matchCase) ==
    LET n == Len(needle)
        G[k \in 0..(Len(text) + 1)] ==
            IF k = 0 THEN {}
            ELSE IF /\ OccursAt(text, needle, matchCase, k - 1)
                    /\ \A j \in G[k - 1] : j + n <= k - 1
                 THEN G[k - 1] \cup {k - 1}
                 ELSE G[k - 1]
    IN G[Len(text) + 1]

\* The text with each span [j, j + n), j in starts, replaced by replacement.
Spliced(text, starts, n, replacement) ==
    LET piece(i) == IF i \in starts THEN replacement
                    ELSE IF \E j \in starts : j < i /\ i < j + n THEN <<>>
                    ELSE <<text[i + 1]>>
        F[k \in 0..Len(text)] == IF k = 0 THEN <<>> ELSE F[k - 1] \o piece(k - 1)
    IN F[Len(text)]

ReplaceRan ==
    /\ call.fn = "ReplaceAllOccurrences"
    /\ call.needle # <<>>
    /\ call.outcome # "alloc_failed"

\* C1: when no allocation fails, ReplaceAllOccurrences with a non-empty
\* needle returns the number of matches of the greedy left-to-right
\* non-overlapping scan, and the edit text afterwards is the text with
\* exactly those spans replaced.
C1_GreedyReplace ==
    ReplaceRan =>
        LET S == GreedyStarts(call.text, call.needle, call.matchCase) IN
        /\ call.ret = Cardinality(S)
        /\ editText = Spliced(call.text, S, Len(call.needle), call.replacement)

\* "aaa", needle "aa", replacement "B", case-sensitive: count 1, result "Ba".
C1_Witness ==
    /\ ReplaceRan
    /\ call.text = <<97, 97, 97>>
    /\ call.needle = <<97, 97>>
    /\ call.replacement = <<66>>
    /\ call.matchCase
    /\ call.ret = 1
    /\ editText = <<66, 97>>

\* C2: in a case-insensitive ReplaceAllOccurrences (no allocation failing)
\* the result is built from the original-case text: with m(i) the number of
\* replaced spans that start before offset i, every code unit text[i] outside
\* the spans stands, unchanged, at offset i - m(i)*n + m(i)*r of the result,
\* every replaced span starting at j holds the replacement, as given, at
\* offset j - m(j)*n + m(j)*r, and the result has no other code units.
C2_OriginalCasePreserved ==
    (ReplaceRan /\ ~call.matchCase) =>
        LET S == GreedyStarts(call.text, call.needle, FALSE)
            n == Len(call.needle)
            r == Len(call.replacement)
            m(i) == Cardinality({j \in S : j < i})
            at(i) == i - m(i) * n + m(i) * r
            inSpan(i) == \E j \in S : j <= i /\ i < j + n
        IN
        /\ Len(editText) = Len(call.text) - Cardinality(S) * n + Cardinality(S) * r
        /\ \A i \in 0..(Len(call.text) - 1) :
             ~inSpan(i) => editText[at(i) + 1] = call.text[i + 1]
        /\ \A j \in S : SubSeq(editText, at(j) + 1, at(j) + r) = call.replacement

\* "aAbA", needle "A", replacement "B", case-insensitive: "BBbB" (the 'a' and
\* both 'A' match; the unmatched 'b' keeps its place).
C2_Witness ==
    /\ ReplaceRan
    /\ ~call.matchCase
    /\ call.text = <<97, 65, 98, 65>>
    /\ call.needle = <<65>>
    /\ call.replacement = <<66>>
    /\ call.ret = 3
    /\ editText = <<66, 66, 98, 66>>

\* C13: ReplaceAllOccurrences with an empty needle returns 0 and leaves the
\* edit text, the edit control's modify flag and g_app.modified as they
\* were, for every text, replacement and case mode.
C13_EmptyNeedleReplace ==
    (call.fn = "ReplaceAllOccurrences" /\ call.needle = <<>>) =>
        /\ call.ret = 0
        /\ editText = call.text
        /\ editModify = call.modifiedBefore
        /\ g_app.modified = call.modifiedBefore

\* The empty needle in "aa" with replacement "B", the document unmodified:
\* 0, "aa" still, still unmodified.
C13_Witness ==
    /\ call.fn = "ReplaceAllOccurrences"
    /\ call.needle = <<>>
    /\ call.text = <<97, 97>>
    /\ call.replacement = <<66>>
    /\ ~call.modifiedBefore
    /\ call.ret = 0
    /\ editText = <<97, 97>>
    /\ ~g_app.modified

\* C15: when ReplaceAllOccurrences replaces something, the length newLen the
\* result buffer is allocated for is len - count*needleLen + count*replLen,
\* and the second pass writes exactly newLen code units before the
\* terminator, for every text, needle, replacement (the empty one included)
\* and case mode.
C15_ExactLength ==
    (ReplaceRan /\ call.outcome = "replaced") =>
        /\ call.newLen = Len(call.text) - call.ret * Len(call.needle)
                             + call.ret * Len(call.replacement)
        /\ call.newLen >= 0
        /\ call.written = call.newLen
        /\ Len(editText) = call.newLen

\* "aAa", needle "a", ignoring case, replacement "BB": 3 matches, newLen 6,
\* six code units written.
C15_Witness ==
    /\ ReplaceRan
    /\ call.text = <<97, 65, 97>>
    /\ call.needle = <<97>>
    /\ ~call.matchCase
    /\ call.replacement = <<66, 66>>
    /\ call.ret = 3
    /\ call.newLen = 6
    /\ call.written = 6
    /\ editText = <<66, 66, 66, 66, 66, 66>>

\* C16: ReplaceAllOccurrences commits exactly when it replaced something:
\* when it returns 0 the edit text and the modified flags are as they were,
\* and when it returns count > 0 the edit text is the newly built text (the
\* greedy matches replaced) and the flags are set.  Without a failed
\* allocation it returns 0 only when the needle occurs nowhere.
C16_CommitIffReplaced ==
    call.fn = "ReplaceAllOccurrences" =>
        /\ call.ret >= 0
        /\ call.ret = 0 =>
              /\ editText = call.text
              /\ editModify = call.modifiedBefore
              /\ g_app.modified = call.modifiedBefore
        /\ call.ret > 0 =>
              /\ editText = Spliced(call.text,
                                    GreedyStarts(call.text, call.needle, call.matchCase),
                                    Len(call.needle), call.replacement)
              /\ editModify
              /\ g_app.modified
        /\ (ReplaceRan /\ call.ret = 0) =>
              Occurrences(call.text, call.needle, call.matchCase) = {}

\* "aab", needle "a", replacement "B", the document unmodified before: 2,
\* "BBb", modified.
C16_Witness ==
    /\ call.fn = "ReplaceAllOccurrences"
    /\ call.text = <<97, 97, 98>>
    /\ call.needle = <<97>>
    /\ call.replacement = <<66>>
    /\ call.matchCase
    /\ ~call.modifiedBefore
    /\ call.ret = 2
    /\ editText = <<66, 66, 98>>
    /\ editModify
    /\ g_app.modified

FindRan ==
    /\ call.fn = "FindInEdit"
    /\ call.needle # <<>>
    /\ call.outcome # "alloc_failed"

\* C3: a forward FindInEdit with a non-empty needle (no allocation failing)
\* and start s = min(startPos, len) returns the occurrence with the smallest
\* start >= s when there is one; else, when s > 0, the occurrence with the
\* smallest start of the whole text; it returns FALSE exactly when the needle
\* occurs nowhere.
C3_ForwardFind ==
    (FindRan /\ call.searchDown) =>
        LET occ == Occurrences(call.text, call.needle, call.matchCase)
            s == IF call.startPos > Len(call.text) THEN Len(call.text) ELSE call.startPos
            after == {i \in occ : i >= s}
        IN
        /\ call.ret = (occ # {})
        /\ after # {} =>
             /\ call.outStart = SetMin(after)
             /\ call.outEnd = SetMin(after) + Len(call.needle)
        /\ (after = {} /\ s > 0 /\ occ # {}) =>
             /\ call.outStart = SetMin(occ)
             /\ call.outEnd = SetMin(occ) + Len(call.needle)

\* "abab", needle "ab": from 3 there is no match in [3,4), the search wraps
\* and returns [0,2).
C3_Witness ==
    /\ FindRan
    /\ call.searchDown
    /\ call.matchCase
    /\ call.text = <<97, 98, 97, 98>>
    /\ call.needle = <<97, 98>>
    /\ call.startPos = 3
    /\ call.ret
    /\ call.outStart = 0
    /\ call.outEnd = 2

\* C4: a backward FindInEdit with a non-empty needle (no allocation failing)
\* and start s = min(startPos, len) returns the occurrence with the largest
\* start < s when there is one; else, when s < len, the occurrence with the
\* largest start among those starting at or after s; it returns FALSE
\* exactly when the needle occurs nowhere.
C4_BackwardFind ==
    (FindRan /\ ~call.searchDown) =>
        LET occ == Occurrences(call.text, call.needle, call.matchCase)
            s == IF call.startPos > Len(call.text) THEN Len(call.text) ELSE call.startPos
            before == {i \in occ : i < s}
            rest == {i \in occ : i >= s}
        IN
        /\ call.ret = (occ # {})
        /\ before # {} =>
             /\ call.outStart = SetMax(before)
             /\ call.outEnd = SetMax(before) + Len(call.needle)
        /\ (before = {} /\ s < Len(call.text) /\ rest # {}) =>
             /\ call.outStart = SetMax(rest)
             /\ call.outEnd = SetMax(rest) + Len(call.needle)

\* "baba", needle "a", backward from 3: matches start at 1 and 3, the one
\* strictly before 3 is [1,2).
C4_Witness ==
    /\ FindRan
    /\ ~call.searchDown
    /\ call.text = <<98, 97, 98, 97>>
    /\ call.needle = <<97>>
    /\ call.matchCase
    /\ call.startPos = 3
    /\ call.ret
    /\ call.outStart = 1
    /\ call.outEnd = 2

\* C12: FindInEdit with an empty needle returns FALSE for every text (the
\* empty one included), start position, direction and case mode, and
\* *outStart and *outEnd hold what they held before the call.
C12_EmptyNeedleFind ==
    (call.fn = "FindInEdit" /\ call.needle = <<>>) =>
        /\ ~call.ret
        /\ call.outStart = call.outStart0
        /\ call.outEnd = call.outEnd0

\* The empty needle in the empty text, backward, ignoring case: FALSE, the
\* outputs still 99.
C12_Witness ==
    /\ call.fn = "FindInEdit"
    /\ call.needle = <<>>
    /\ call.text = <<>>
    /\ ~call.searchDown
    /\ ~call.matchCase
    /\ call.failAt = 0
    /\ call.outStart0 = 99
    /\ ~call.ret
    /\ call.outStart = 99
    /\ call.outEnd = 99

\* C14: whenever FindInEdit returns TRUE, for any start position (those
\* beyond the end of the text included), the range it stores is
\* [outStart, outStart + len(needle)) with 0 <= outStart and
\* outEnd <= len(text), and the text in that range equals the needle: code
\* unit for code unit when matchCase is set, after lowercasing both
\* otherwise.
C14_MatchRange ==
    (call.fn = "FindInEdit" /\ call.ret) =>
        /\ call.needle # <<>>
        /\ call.outStart >= 0
        /\ call.outEnd = call.outStart + Len(call.needle)
        /\ call.outEnd <= Len(call.text)
        /\ \A k \in 1..Len(call.needle) :
             IF call.matchCase
             THEN call.text[call.outStart + k] = call.needle[k]
             ELSE CharLower(call.text[call.outStart + k]) = CharLower(call.needle[k])

\* "aAb", needle "ab", ignoring case, forward from 4 (one past the end):
\* the start is clamped to 3, nothing is found there, the search wraps and
\* stores [1,3), where the text reads "Ab".
C14_Witness ==
    /\ call.fn = "FindInEdit"
    /\ call.text = <<97, 65, 98>>
    /\ call.needle = <<97, 98>>
    /\ ~call.matchCase
    /\ call.searchDown
    /\ call.startPos = 4
    /\ call.ret
    /\ call.outStart = 1
    /\ call.outEnd = 3

\* What the caller of FindInEdit has in hand after a search that found
\* nothing: FALSE, and its outputs as they were.
NotFoundSeen == [ret |-> FALSE, outStart |-> call.outStart0, outEnd |-> call.outEnd0]

\* C19: a failed allocation is reported to the caller as an outcome it can
\* tell from the normal ones: after a failed allocation in FindInEdit the
\* caller does not have what a search that found nothing gives it, and after
\* a failed allocation in ReplaceAllOccurrences the return value is not the
\* 0 of a run that met no occurrence.
C19_FailureDistinguishable ==
    /\ (call.fn = "FindInEdit" /\ call.outcome = "alloc_failed") =>
          [ret |-> call.ret, outStart |-> call.outStart, outEnd |-> call.outEnd]
             # NotFoundSeen
    /\ (call.fn = "ReplaceAllOccurrences" /\ call.outcome = "alloc_failed") =>
          call.ret # 0

\* Every outcome of FindInEdit other than "found" hands the caller the same
\* thing.
FindMissesLookAlike ==
    (call.fn = "FindInEdit" /\ call.outcome # "found") =>
        [ret |-> call.ret, outStart |-> call.outStart, outEnd |-> call.outEnd]
           = NotFoundSeen

\* Every outcome of ReplaceAllOccurrences other than "replaced" returns 0 and
\* leaves the text as it was.
ReplaceMissesLookAlike ==
    (call.fn = "ReplaceAllOccurrences" /\ call.outcome # "replaced") =>
        call.ret = 0 /\ editText = call.text

(***************************************************************************)
(* SpecLoad: LoadTextFile and DecodeToWide applied to every file content   *)
(* within the bounds.                                                      *)
(***************************************************************************)
LoadFaults == {"none", "open", "size", "alloc_buffer", "read", "alloc_text"}
Encodings == {ENC_UTF8, ENC_UTF16LE, ENC_UTF16BE, ENC_ANSI}

InitLoad ==
    /\ ShellAtRest
    /\ editText = <<>>
    /\ editModify = FALSE
    /\ g_app = AppDefaults
    /\ \E bytes \in FileContents :
         disk = [p \in Paths |-> IF p = "a.txt" THEN FileOf(bytes) ELSE NoFile]
    /\ call = NoCall

CallLoadTextFile ==
    /\ call.fn = "none"
    /\ \E path \in Paths, fault \in LoadFaults :
         /\ disk[path].exists \/ fault = "none"
         /\ \E r \in {LoadTextFile(disk[path], fault)} :
               call' = [fn |-> "LoadTextFile", path |-> path, file |-> disk[path],
                        fault |-> fault, ret |-> r.ret, textOut |-> r.textOut,
                        lengthOut |-> r.lengthOut, encodingOut |-> r.encodingOut,
                        enc |-> r.enc, message |-> r.message,
                        events |-> LoadTextFileEvents(disk[path], fault, r)]
    /\ UNCHANGED <<editText, editModify, g_app, disk>>
    /\ ShellUnchanged

CallDecodeToWide ==
    /\ call.fn = "none"
    /\ \E encoding \in Encodings, allocFails \in BOOLEAN :
         \E data \in {disk["a.txt"].bytes} :
         \E r \in {DecodeToWide(data, encoding, allocFails)} :
            call' = [fn |-> "DecodeToWide", data |-> data, encoding |-> encoding,
                     allocFails |-> allocFails, ret |-> r.ret, text |-> r.text,
                     length |-> r.length]
    /\ UNCHANGED <<editText, editModify, g_app, disk>>
    /\ ShellUnchanged

NextLoad == CallLoadTextFile \/ CallDecodeToWide

SpecLoad == InitLoad /\ [][NextLoad]_vars

(***************************************************************************)
(* Properties of detection and decoding.                                   *)
(***************************************************************************)
StartsWith(bytes, prefix) ==
    Len(bytes) >= Len(prefix) /\ SubSeq(bytes, 1, Len(prefix)) = prefix

BOM_UTF16LE == <<255, 254>>
BOM_UTF16BE == <<254, 255>>
BOM_UTF8 == <<239, 187, 191>>

\* LoadTextFile read a file and no step of it was made to fail.
LoadRan ==
    /\ call.fn = "LoadTextFile"
    /\ call.file.exists
    /\ call.fault = "none"

\* C5: the encoding detected for a file (the enc of LoadTextFile, set by
\* DetectEncoding) is UTF16LE whenever the file starts FF FE, UTF16BE
\* whenever it starts FE FF, UTF8 whenever it starts EF BB BF, whatever
\* bytes follow the mark.
C5_BomPriority ==
    LoadRan =>
        /\ StartsWith(call.file.bytes, BOM_UTF16LE) => call.enc = ENC_UTF16LE
        /\ StartsWith(call.file.bytes, BOM_UTF16BE) => call.enc = ENC_UTF16BE
        /\ StartsWith(call.file.bytes, BOM_UTF8) => call.enc = ENC_UTF8

\* FF FE EF BB BF is UTF16LE, not UTF8.
C5_Witness ==
    /\ LoadRan
    /\ call.file.bytes = <<255, 254, 239, 187, 191>>
    /\ call.enc = ENC_UTF16LE
    /\ call.encodingOut = ENC_UTF16LE

\* Well-formed UTF-8 from offset i on, by the byte ranges of the Unicode
\* standard's table of well-formed byte sequences.
RECURSIVE WellFormedUtf8From(_, _)
WellFormedUtf8From(b, i) ==
    LET has(k) == i + k <= Len(b)
        in(k, lo, hi) == b[i + k] >= lo /\ b[i + k] <= hi
        tail(k) == in(k, 128, 191)
    IN
    \/ i = Len(b)
    \/ has(1) /\ in(1, 0, 127) /\ WellFormedUtf8From(b, i + 1)
    \/ has(2) /\ in(1, 194, 223) /\ tail(2) /\ WellFormedUtf8From(b, i + 2)
    \/ has(3) /\ in(1, 224, 224) /\ in(2, 160, 191) /\ tail(3) /\ WellFormedUtf8From(b, i + 3)
    \/ has(3) /\ in(1, 225, 236) /\ tail(2) /\ tail(3) /\ WellFormedUtf8From(b, i + 3)
    \/ has(3) /\ in(1, 237, 237) /\ in(2, 128, 159) /\ tail(3) /\ WellFormedUtf8From(b, i + 3)
    \/ has(3) /\ in(1, 238, 239) /\ tail(2) /\ tail(3) /\ WellFormedUtf8From(b, i + 3)
    \/ has(4) /\ in(1, 240, 240) /\ in(2, 144, 191) /\ tail(3) /\ tail(4)
              /\ WellFormedUtf8From(b, i + 4)
    \/ has(4) /\ in(1, 241, 243) /\ tail(2) /\ tail(3) /\ tail(4)
              /\ WellFormedUtf8From(b, i + 4)
    \/ has(4) /\ in(1, 244, 244) /\ in(2, 128, 143) /\ tail(3) /\ tail(4)
              /\ WellFormedUtf8From(b, i + 4)

WellFormedUtf8(b) == WellFormedUtf8From(b, 0)

NoBom(bytes) ==
    /\ ~StartsWith(bytes, BOM_UTF16LE)
    /\ ~StartsWith(bytes, BOM_UTF16BE)
    /\ ~StartsWith(bytes, BOM_UTF8)

\* C6: every file that LoadTextFile reads gets exactly one of the four
\* encodings, and a file that starts with none of the three marks (the
\* empty file included) loads as UTF8 when all of it is well-formed UTF-8
\* and as ANSI otherwise.
C6_DetectTotal ==
    /\ call.fn = "LoadTextFile" => call.encodingOut \in Encodings
    /\ (LoadRan /\ NoBom(call.file.bytes)) =>
          /\ call.ret
          /\ call.encodingOut =
                IF WellFormedUtf8(call.file.bytes) THEN ENC_UTF8 ELSE ENC_ANSI

\* 'A' followed by the lead byte of a 2-byte sequence that never comes: ANSI.
C6_Witness ==
    /\ LoadRan
    /\ call.file.bytes = <<65, 195>>
    /\ call.ret
    /\ call.encodingOut = ENC_ANSI

BomOnlyFiles == {BOM_UTF16LE, BOM_UTF16BE, BOM_UTF8}

\* C9: a file that is empty once its leading mark is skipped (only FF FE,
\* only FE FF, only EF BB BF) loads as the empty text and is never reported
\* as a decode error.
C9_BomOnlyDecodes ==
    (LoadRan /\ call.file.bytes \in BomOnlyFiles) =>
        /\ call.ret
        /\ call.textOut = <<>>
        /\ call.message # "Unable to decode file."

DecodeUtf16Ran ==
    /\ call.fn = "DecodeToWide"
    /\ call.encoding \in {ENC_UTF16LE, ENC_UTF16BE}
    /\ ~call.allocFails

\* C10: DecodeToWide for UTF16LE and UTF16BE (its allocation succeeding)
\* fails exactly when the input has fewer than 2 bytes; otherwise it yields
\* floor((size - bomBytes) / 2) code units, bomBytes being 2 when the input
\* starts with the mark of that encoding and 0 otherwise, code unit i being
\* byte[2i] + 256*byte[2i+1] after the mark for UTF16LE and
\* 256*byte[2i] + byte[2i+1] for UTF16BE.
C10_Utf16Decode ==
    DecodeUtf16Ran =>
        LET b == call.data
            le == call.encoding = ENC_UTF16LE
            bom == IF StartsWith(b, IF le THEN BOM_UTF16LE ELSE BOM_UTF16BE) THEN 2 ELSE 0
            n == (Len(b) - bom) \div 2
            lo(i) == b[bom + 2 * i + 1]
            hi(i) == b[bom + 2 * i + 2]
        IN
        /\ call.ret = (Len(b) >= 2)
        /\ call.ret =>
             /\ call.length = n
             /\ Len(call.text) = n
             /\ \A i \in 0..(n - 1) :
                  call.text[i + 1] = IF le THEN lo(i) + 256 * hi(i)
                                     ELSE 256 * lo(i) + hi(i)

\* 41 80 BB as UTF16BE without a mark: one code unit 0x4180, the odd byte
\* dropped.
C10_Witness ==
    /\ DecodeUtf16Ran
    /\ call.encoding = ENC_UTF16BE
    /\ call.data = <<65, 128, 187>>
    /\ call.ret
    /\ call.text = <<16768>>

(***************************************************************************)
(* SpecSave: SaveTextFile applied to every text and encoding within the    *)
(* bounds, onto a path that holds no file or an older file.                *)
(***************************************************************************)
SaveFaults == {"none", "create", "write_bom", "alloc", "write_data"}

OldFile == FileOf(<<65, 65>>)

InitSave ==
    /\ ShellAtRest
    /\ editText \in SaveTexts
    /\ editModify = TRUE
    /\ g_app = [AppDefaults EXCEPT !.modified = TRUE]
    /\ \E old \in {NoFile, OldFile} :
         disk = [p \in Paths |-> IF p = "a.txt" THEN old ELSE NoFile]
    /\ call = NoCall

CallSaveTextFile ==
    /\ call.fn = "none"
    /\ \E encoding \in Encodings, fault \in SaveFaults :
         \E r \in {SaveTextFile(disk["a.txt"], editText, encoding, fault)} :
            /\ disk' = [disk EXCEPT !["a.txt"] = r.file]
            /\ call' = [fn |-> "SaveTextFile", path |-> "a.txt", text |-> editText,
                        length |-> Len(editText), encoding |-> encoding,
                        fault |-> fault, before |-> disk["a.txt"],
                        ret |-> r.ret, message |-> r.message,
                        events |-> SaveTextFileEvents(editText, encoding, fault)]
    /\ UNCHANGED <<editText, editModify, g_app>>
    /\ ShellUnchanged

NextSave == CallSaveTextFile

SpecSave == InitSave /\ [][NextSave]_vars

(***************************************************************************)
(* Properties of saving.                                                   *)
(***************************************************************************)

\* A text of well-formed code units: every surrogate is half of a pair.
WellFormedText(t) ==
    \A i \in 1..Len(t) :
        /\ IsHighSurrogate(t[i]) => (i < Len(t) /\ IsLowSurrogate(t[i + 1]))
        /\ IsLowSurrogate(t[i]) => (i > 1 /\ IsHighSurrogate(t[i - 1]))

\* SaveTextFile ran with UTF8 or UTF16LE on a well-formed text and no step
\* of it was made to fail.
SaveRan ==
    /\ call.fn = "SaveTextFile"
    /\ call.fault = "none"
    /\ call.encoding \in {ENC_UTF8, ENC_UTF16LE}
    /\ WellFormedText(call.text)

\* What DecodeToWide makes of the saved file under the encoding it was
\* saved with.
Reread == DecodeToWide(disk[call.path].bytes, call.encoding, FALSE)

\* C7: for every well-formed text, the empty one included, and each of UTF8
\* and UTF16LE, saving succeeds and decoding the written bytes with the
\* same encoding yields the text, code unit for code unit.
C7_RoundTrip ==
    SaveRan =>
        /\ call.ret
        /\ Reread.ret
        /\ Reread.text = call.text
        /\ Reread.length = Len(call.text)

\* The round trip of C7 for the texts that are not empty.
RoundTripNonEmpty ==
    (SaveRan /\ call.text # <<>>) =>
        /\ call.ret
        /\ Reread.ret
        /\ Reread.text = call.text
        /\ Reread.length = Len(call.text)

\* The empty text saves and rereads as UTF16LE.
RoundTripEmptyUTF16LE ==
    (SaveRan /\ call.text = <<>> /\ call.encoding = ENC_UTF16LE) =>
        call.ret /\ Reread.ret /\ Reread.text = <<>>

\* SaveTextFile succeeded.
SaveDone == call.fn = "SaveTextFile" /\ call.ret

\* C11: the bytes a successful save writes follow from the encoding alone,
\* whatever the path held before: for UTF8 they are EF BB BF and then the
\* UTF-8 form of the text; for UTF16LE they are FF FE and then, for each
\* code unit in order, its low byte and its high byte; for ANSI they are one
\* byte per code unit with nothing put in front.
C11_SavedBytes ==
    SaveDone =>
        LET b == disk[call.path].bytes
            t == call.text
        IN
        /\ call.encoding = ENC_UTF8 =>
              /\ StartsWith(b, BOM_UTF8)
              /\ SubSeq(b, 4, Len(b)) = WideToUtf8(t, 1)
        /\ call.encoding = ENC_UTF16LE =>
              /\ StartsWith(b, BOM_UTF16LE)
              /\ Len(b) = 2 + 2 * Len(t)
              /\ \A i \in 1..Len(t) :
                   /\ b[2 * i + 1] = t[i] % 256
                   /\ b[2 * i + 2] = t[i] \div 256
        /\ call.encoding = ENC_ANSI =>
              /\ Len(b) = Len(t)
              /\ \A i \in 1..Len(t) : b[i] = WideToAcp(t[i])

\* U+20AC 'A' saved as UTF16LE over an older file without a mark:
\* FF FE AC 20 41 00.
C11_Witness ==
    /\ SaveDone
    /\ call.before = OldFile
    /\ call.encoding = ENC_UTF16LE
    /\ call.text = <<8364, 65>>
    /\ disk[call.path].bytes = <<255, 254, 172, 32, 65, 0>>

(***************************************************************************)
(* The document handlers of retropad.c.  A handler is an operator from the *)
(* state st = [editText, editModify, g_app, disk] and the inputs of the    *)
(* call (what the user answers, which step fails) to its return value and  *)
(* the state it leaves.  The result of a call that a handler makes is      *)
(* bound once, as the element of a one-element set.                        *)
(***************************************************************************)
St == [editText |-> editText, editModify |-> editModify, g_app |-> g_app, disk |-> disk]

\* SetWindowTextW on the edit control: a C string ends at its first NUL.
RECURSIVE CString(_)
CString(text) ==
    IF text = <<>> \/ Head(text) = 0 THEN <<>>
    ELSE <<Head(text)>> \o CString(Tail(text))

\* DoFileSave.  dlg is the answer of SaveFileDialog ("cancel" or the path
\* chosen), used when the dialog is shown; allocFails is the HeapAlloc of
\* the text buffer; fault is the failing step of SaveTextFile, whose result
\* is r.  g_app.currentPath is set before the text is saved.
DoFileSave(st, saveAs, dlg, allocFails, fault) ==
    LET ask == saveAs \/ st.g_app.currentPath = ""
        path == IF ask THEN dlg ELSE st.g_app.currentPath
        st1 == [st EXCEPT !.g_app.currentPath = path]
    IN
    IF ask /\ dlg = "cancel" THEN [ret |-> FALSE, st |-> st]
    ELSE IF allocFails THEN [ret |-> FALSE, st |-> st1]
    ELSE CHOOSE out \in
           {IF r.ret
            THEN [ret |-> TRUE,
                  st |-> [st1 EXCEPT !.disk[path] = r.file,
                                     !.editModify = FALSE,
                                     !.g_app.modified = FALSE]]
            ELSE [ret |-> FALSE, st |-> [st1 EXCEPT !.disk[path] = r.file]]
            : r \in {SaveTextFile(st.disk[path], st.editText, st.g_app.encoding, fault)}}
           : TRUE

\* PromptSaveChanges.  answer is the button of the message box ("yes", "no",
\* "cancel"), used when the document is modified; the rest are the inputs of
\* the DoFileSave a "yes" leads to.
PromptSaveChanges(st, answer, dlg, allocFails, fault) ==
    IF ~st.g_app.modified THEN [ret |-> TRUE, st |-> st]
    ELSE IF answer = "yes" THEN DoFileSave(st, FALSE, dlg, allocFails, fault)
    ELSE [ret |-> answer = "no", st |-> st]

\* LoadDocumentFromPath storing the path before LoadTextFile has succeeded.
LoadDocumentFromPathSetsPathFirst(st, path, fault) ==
    CHOOSE out \in
      {IF ~r.ret THEN [ret |-> FALSE, st |-> [st EXCEPT !.g_app.currentPath = path]]
       ELSE [ret |-> TRUE,
             st |-> [st EXCEPT !.editText = CString(r.textOut),
                               !.g_app.currentPath = path,
                               !.g_app.encoding = r.encodingOut,
                               !.editModify = FALSE,
                               !.g_app.modified = FALSE]]
       : r \in {LoadTextFile(st.disk[path], fault)}}
      : TRUE

\* LoadDocumentFromPath.  fault is the failing step of LoadTextFile, whose
\* result is r.
LoadDocumentFromPath(st, path, fault) ==
    CHOOSE out \in
      {IF ~r.ret THEN [ret |-> FALSE, st |-> st]
       ELSE [ret |-> TRUE,
             st |-> [st EXCEPT !.editText = CString(r.textOut),
                               !.g_app.currentPath = path,
                               !.g_app.encoding = r.encodingOut,
                               !.editModify = FALSE,
                               !.g_app.modified = FALSE]]
       : r \in {LoadTextFile(st.disk[path], fault)}}
      : TRUE

\* DoFileOpen.  openDlg is the answer of OpenFileDialog ("cancel" or the
\* path chosen); p is the result of PromptSaveChanges.
DoFileOpen(st, answer, dlg, allocFails, saveFault, openDlg, loadFault) ==
    CHOOSE out \in
      {IF ~p.ret THEN [ret |-> FALSE, st |-> p.st]
       ELSE IF openDlg = "cancel" THEN [ret |-> FALSE, st |-> p.st]
       ELSE LoadDocumentFromPath(p.st, openDlg, loadFault)
       : p \in {PromptSaveChanges(st, answer, dlg, allocFails, saveFault)}}
      : TRUE

\* DoFileNew (a void function): ret tells whether the new document was made.
DoFileNew(st, answer, dlg, allocFails, saveFault) ==
    CHOOSE out \in
      {IF ~p.ret THEN [ret |-> FALSE, st |-> p.st]
       ELSE [ret |-> TRUE,
             st |-> [p.st EXCEPT !.editText = <<>>,
                                 !.g_app.currentPath = "",
                                 !.g_app.encoding = ENC_UTF8,
                                 !.editModify = FALSE,
                                 !.g_app.modified = FALSE]]
       : p \in {PromptSaveChanges(st, answer, dlg, allocFails, saveFault)}}
      : TRUE

\* The WM_DROPFILES case of MainWndProc, for the first file dropped.
OnDropFiles(st, path, answer, dlg, allocFails, saveFault, loadFault) ==
    CHOOSE out \in
      {IF ~p.ret THEN [ret |-> FALSE, st |-> p.st]
       ELSE LoadDocumentFromPath(p.st, path, loadFault)
       : p \in {PromptSaveChanges(st, answer, dlg, allocFails, saveFault)}}
      : TRUE

\* The EN_CHANGE case of WM_COMMAND, after the user changed the text to t:
\* the edit control has set its modify flag.
OnEditChange(st, t) ==
    [ret |-> TRUE,
     st |-> [st EXCEPT !.editText = t, !.editModify = TRUE, !.g_app.modified = TRUE]]

(***************************************************************************)
(* Spec: the editor.  It starts as wWinMain and WM_CREATE leave it, with   *)
(* an empty untitled document, beside a file a.txt of some encoding.       *)
(***************************************************************************)

\* What the user types into the edit control.
TypedTexts == {<<>>, <<65>>, <<233, 65>>}

\* The files found on disk at the start: UTF-16BE and UTF-16LE with a mark,
\* a lone 0xE9 (ANSI), UTF-8 without a mark, a lone UTF-8 mark.
StartFiles ==
    {FileOf(<<254, 255, 0, 65>>), FileOf(<<255, 254, 65, 0>>), FileOf(<<233>>),
     FileOf(<<65>>), FileOf(<<239, 187, 191>>)}

Answers == {"yes", "no", "cancel"}
DialogAnswers == Paths \cup {"cancel"}

\* The inputs a call of DoFileSave consumes in state st: the answer of the
\* dialog when it is shown, the allocation when the dialog was not
\* cancelled, the step of SaveTextFile when the allocation succeeded.  An
\* input that is not consumed takes one value.
SaveInputs(st, saveAs) ==
    LET ask == saveAs \/ st.g_app.currentPath = "" IN
    {i \in [dlg : DialogAnswers, allocFails : BOOLEAN, fault : SaveFaults] :
        /\ ~ask => i.dlg = "cancel"
        /\ (ask /\ i.dlg = "cancel") => ~i.allocFails
        /\ ((ask /\ i.dlg = "cancel") \/ i.allocFails) => i.fault = "none"}

\* The inputs a call of PromptSaveChanges consumes in state st.
PromptInputs(st) ==
    IF ~st.g_app.modified
    THEN {[answer |-> "no", dlg |-> "cancel", allocFails |-> FALSE, fault |-> "none"]}
    ELSE {[answer |-> "yes", dlg |-> i.dlg, allocFails |-> i.allocFails,
           fault |-> i.fault] : i \in SaveInputs(st, FALSE)}
         \cup {[answer |-> a, dlg |-> "cancel", allocFails |-> FALSE,
                fault |-> "none"] : a \in {"no", "cancel"}}

Init ==
    /\ ShellAtRest
    /\ editText = <<>>
    /\ editModify = FALSE
    /\ g_app = AppDefaults
    /\ \E f \in StartFiles : disk = [p \in Paths |-> IF p = "a.txt" THEN f ELSE NoFile]
    /\ call = [fn |-> "none", step |-> 0]

\* The state a handler leaves, with the record of the call: its name, its
\* return value, the state it started from, the number of handlers run and
\* what else the action notes of the call.
Leaves(fn, result, more) ==
    /\ win.main
    /\ call.step < MaxSteps
    /\ \E r \in {result} :
         /\ editText' = r.st.editText
         /\ editModify' = r.st.editModify
         /\ g_app' = r.st.g_app
         /\ disk' = r.st.disk
         /\ call' = [fn |-> fn, ret |-> r.ret, before |-> St, step |-> call.step + 1]
                    @@ more
    /\ ShellUnchanged

\* Nothing more to note.
NoMore == [x \in {} |-> x]

EditChange ==
    \E t \in TypedTexts :
        /\ t # editText
        /\ Leaves("EditChange", OnEditChange(St, t), NoMore)

FileSave ==
    \E saveAs \in BOOLEAN :
        \E i \in SaveInputs(St, saveAs) :
            Leaves(IF saveAs THEN "DoFileSaveAs" ELSE "DoFileSave",
                   DoFileSave(St, saveAs, i.dlg, i.allocFails, i.fault), NoMore)

\* The handlers that start with PromptSaveChanges note its result (prompt)
\* and, when they go on to load, the path given to LoadDocumentFromPath.
FileOpen ==
    \E p \in PromptInputs(St), openDlg \in DialogAnswers, loadFault \in LoadFaults :
        /\ openDlg \in Paths => disk[openDlg].exists
        /\ openDlg = "cancel" => loadFault = "none"
        /\ \E q \in {PromptSaveChanges(St, p.answer, p.dlg, p.allocFails, p.fault)} :
             Leaves("DoFileOpen",
                    DoFileOpen(St, p.answer, p.dlg, p.allocFails, p.fault,
                               openDlg, loadFault),
                    [prompt |-> q, answer |-> p.answer,
                     path |-> IF q.ret THEN openDlg ELSE "cancel"])

FileNew ==
    \E p \in PromptInputs(St) :
        \E q \in {PromptSaveChanges(St, p.answer, p.dlg, p.allocFails, p.fault)} :
            Leaves("DoFileNew", DoFileNew(St, p.answer, p.dlg, p.allocFails, p.fault),
                   [prompt |-> q, answer |-> p.answer])

DropFiles ==
    \E p \in PromptInputs(St), path \in Paths, loadFault \in LoadFaults :
        /\ disk[path].exists
        /\ \E q \in {PromptSaveChanges(St, p.answer, p.dlg, p.allocFails, p.fault)} :
             Leaves("WM_DROPFILES",
                    OnDropFiles(St, path, p.answer, p.dlg, p.allocFails, p.fault,
                                loadFault),
                    [prompt |-> q, answer |-> p.answer,
                     path |-> IF q.ret THEN path ELSE "cancel"])

\* WM_CLOSE: the window is destroyed when PromptSaveChanges allows it.
OnClose(st, answer, dlg, allocFails, fault) ==
    PromptSaveChanges(st, answer, dlg, allocFails, fault)

Close ==
    /\ win.main
    /\ call.step < MaxSteps
    /\ \E p \in PromptInputs(St) :
         \E q \in {OnClose(St, p.answer, p.dlg, p.allocFails, p.fault)} :
            /\ editText' = q.st.editText
            /\ editModify' = q.st.editModify
            /\ g_app' = q.st.g_app
            /\ disk' = q.st.disk
            /\ win' = [win EXCEPT !.main = ~q.ret]
            /\ call' = [fn |-> "WM_CLOSE", ret |-> q.ret, before |-> St,
                        step |-> call.step + 1, prompt |-> q, answer |-> p.answer]
    /\ UNCHANGED <<editSel, registry>>

Next == EditChange \/ FileSave \/ FileOpen \/ FileNew \/ DropFiles \/ Close

Spec == Init /\ [][Next]_vars

(***************************************************************************)
(* Properties of the document handlers.                                    *)
(***************************************************************************)

\* C8: a save of a document whose encoding is UTF16BE that succeeds has
\* written the UTF-8 mark and UTF-8 bytes, and afterwards the document's
\* remembered encoding is UTF8.
C8_Utf16BeDowngrade ==
    (/\ call.fn \in {"DoFileSave", "DoFileSaveAs"}
     /\ call.ret
     /\ call.before.g_app.encoding = ENC_UTF16BE) =>
        /\ disk[g_app.currentPath].bytes =
              <<239, 187, 191>> \o WideToUtf8(call.before.editText, 1)
        /\ g_app.encoding = ENC_UTF8

\* The part of C8 that the code keeps: the bytes written are UTF-8 with the
\* mark, and the remembered encoding stays UTF16BE.
Utf16BeSavedAsUtf8 ==
    (/\ call.fn \in {"DoFileSave", "DoFileSaveAs"}
     /\ call.ret
     /\ call.before.g_app.encoding = ENC_UTF16BE) =>
        /\ disk[g_app.currentPath].bytes =
              <<239, 187, 191>> \o WideToUtf8(call.before.editText, 1)
        /\ g_app.encoding = ENC_UTF16BE

\* DoFileSave returned FALSE (File > Save or File > Save As).
SaveFailed ==
    /\ call.fn \in {"DoFileSave", "DoFileSaveAs"}
    /\ ~call.ret

\* C17: whenever a save reports failure, every file holds what it held
\* before and the document's text, current path, encoding and modified
\* flag are as they were before the save was attempted.
C17_FailedSaveUnchanged ==
    SaveFailed =>
        /\ disk = call.before.disk
        /\ editText = call.before.editText
        /\ editModify = call.before.editModify
        /\ g_app = call.before.g_app

\* The part of C17 that the code keeps: a failed save leaves the text, the
\* encoding and the modified flags as they were.
FailedSaveKeepsText ==
    SaveFailed =>
        /\ editText = call.before.editText
        /\ editModify = call.before.editModify
        /\ g_app.encoding = call.before.g_app.encoding
        /\ g_app.modified = call.before.g_app.modified

\* LoadDocumentFromPath was called (by DoFileOpen or for a dropped file, once
\* PromptSaveChanges let it go on) and returned FALSE.
LoadFailed ==
    /\ call.fn \in {"DoFileOpen", "WM_DROPFILES"}
    /\ call.prompt.ret
    /\ call.path \in Paths
    /\ ~call.ret

\* C18: whenever loading a path fails, the editor text, the current path,
\* the remembered encoding and the modified flags (and the files) are what
\* they were when the load was attempted.
C18_FailedLoadUntouched ==
    LoadFailed =>
        /\ editText = call.prompt.st.editText
        /\ editModify = call.prompt.st.editModify
        /\ g_app = call.prompt.st.g_app
        /\ disk = call.prompt.st.disk

\* The user has typed U+00E9 'A' into the untitled document, picks File >
\* Open, answers No to the prompt and opens a.txt, which holds only EF BB BF
\* and fails to decode: the typed text is still there, untitled and
\* modified.
C18_Witness ==
    /\ LoadFailed
    /\ call.fn = "DoFileOpen"
    /\ call.path = "a.txt"
    /\ disk["a.txt"].bytes = <<239, 187, 191>>
    /\ call.before.g_app.modified
    /\ call.prompt.st = call.before
    /\ editText = <<233, 65>>
    /\ g_app = [AppDefaults EXCEPT !.modified = TRUE]

(***************************************************************************)
(* SpecCalls: one call of FindInEdit, ReplaceAllOccurrences, LoadTextFile  *)
(* or SaveTextFile, from a short text and no file or from a file found on  *)
(* disk, on every exit path the inputs and the failures select.            *)
(***************************************************************************)
CallTexts == {t \in Texts : Len(t) <= MaxCallTextLen}

InitCalls ==
    /\ ShellAtRest
    /\ editModify = FALSE
    /\ g_app = AppDefaults
    /\ call = NoCall
    /\ \/ /\ editText \in CallTexts
          /\ disk = [p \in Paths |-> NoFile]
       \/ /\ editText = <<>>
          /\ \E f \in StartFiles \cup {FileOf(<<>>)} :
               disk = [p \in Paths |-> IF p = "a.txt" THEN f ELSE NoFile]

NextCalls ==
    \/ CallFindInEdit
    \/ CallReplaceAllOccurrences
    \/ CallLoadTextFile
    \/ CallSaveTextFile

SpecCalls == InitCalls /\ [][NextCalls]_vars

Resources == {"text", "needleBuf", "searchBuf", "result", "buffer", "file"}

\* How many times event e happened.
Times(events, e) == Cardinality({i \in DOMAIN events : events[i] = e})

\* What is still held when the call returns.
Held(events) ==
    {x \in Resources : Times(events, Acquire(x)) > Times(events, Release(x))}

\* Every release is of something acquired earlier and not released before,
\* and nothing is acquired twice.
ReleasedAtMostOnce(events) ==
    /\ \A x \in Resources :
         /\ Times(events, Acquire(x)) <= 1
         /\ Times(events, Release(x)) <= 1
    /\ \A i \in DOMAIN events :
         events[i][1] = "release" =>
            \E j \in 1..(i - 1) : events[j] = Acquire(events[i][2])

CallReturned == call.fn \in {"FindInEdit", "ReplaceAllOccurrences", "LoadTextFile",
                             "SaveTextFile"}

\* C20: when find, replaceAll, load or save returns, on whichever exit path,
\* every buffer and handle the call acquired has been released exactly once;
\* the one thing still held is the text a successful load hands its caller.
C20_ReleasedExactlyOnce ==
    CallReturned =>
        /\ ReleasedAtMostOnce(call.events)
        /\ Held(call.events) =
              IF call.fn = "LoadTextFile" /\ call.ret THEN {"text"} ELSE {}

\* A replace-all that finds no occurrence returns with its three buffers
\* acquired and freed.
C20_Witness ==
    /\ call.fn = "ReplaceAllOccurrences"
    /\ call.outcome = "no_occurrence"
    /\ Len(call.events) = 6
    /\ Held(call.events) = {}

\* A load that succeeds returns holding the text only, the handle closed and
\* the raw buffer freed.
LoadKeepsTextOnly ==
    /\ call.fn = "LoadTextFile"
    /\ call.ret
    /\ Times(call.events, Release("file")) = 1
    /\ Times(call.events, Release("buffer")) = 1
    /\ Held(call.events) = {"text"}

(***************************************************************************)
(* The settings: word wrap, status bar, font, and the Go To command.  The  *)
(* handlers work on the record Ui of what they read and write.             *)
(***************************************************************************)
Ui == [editText |-> editText, editSel |-> editSel, editModify |-> editModify,
       g_app |-> g_app, win |-> win, registry |-> registry]

\* LoadWordWrapSetting: FALSE when the key cannot be opened or the value
\* cannot be read (readFails, or no key), else whether the stored DWORD is
\* not 0.
LoadWordWrapSetting(reg, readFails) ==
    IF ~reg.key \/ readFails THEN FALSE ELSE reg.WordWrap # 0

\* SaveWordWrapSetting: the value is stored when the key is created or opened.
SaveWordWrapSetting(reg, enabled, regFails) ==
    IF regFails THEN reg
    ELSE [key |-> TRUE, WordWrap |-> IF enabled THEN 1 ELSE 0]

\* CreateEditControl: the old control is destroyed; the new one is empty, its
\* caret at 0 and its modify flag clear, wraps when g_app.wordWrap, and is
\* given the current font when there is one.
CreateEditControl(s) ==
    [s EXCEPT !.editText = <<>>, !.editSel = <<0, 0>>, !.editModify = FALSE,
              !.win.editWraps = s.g_app.wordWrap,
              !.win.editFont = s.g_app.hFont]

\* SetWindowTextW on the edit control (WM_SETTEXT): the text is replaced, the
\* caret goes to 0 and the modify flag is cleared; a multiline edit control
\* sends no EN_CHANGE for it.
SetWindowTextW(s, text) ==
    [s EXCEPT !.editText = text, !.editSel = <<0, 0>>, !.editModify = FALSE]

\* SetWordWrap.  allocFails is the HeapAlloc of GetEditText returning NULL,
\* regFails the registry key not opening.
SetWordWrap(s, enabled, allocFails, regFails) ==
    IF s.g_app.wordWrap = enabled THEN s
    ELSE LET s1 == [s EXCEPT !.g_app.wordWrap = enabled] IN
         IF allocFails THEN s1
         ELSE LET text == s1.editText
                  sel == s1.editSel
                  s2 == SetWindowTextW(CreateEditControl(s1), text)
              IN [s2 EXCEPT !.editSel = sel,
                            !.win.gotoItem = ~enabled,
                            !.registry = SaveWordWrapSetting(s2.registry, enabled,
                                                             regFails)]

\* ToggleStatusBar.
ToggleStatusBar(s, visible) ==
    [s EXCEPT !.g_app.statusVisible = visible, !.win.statusShown = visible]

\* The fonts the font dialog offers.
Fonts == {1, 2}

\* DoSelectFont: choice is the font picked in ChooseFontW, 0 when the dialog
\* is cancelled; createFails is CreateFontIndirectW returning NULL.
DoSelectFont(s, choice, createFails) ==
    IF choice = 0 \/ createFails THEN s
    ELSE [s EXCEPT !.g_app.hFont = choice, !.win.editFont = choice]

\* UpdateMenuStates: the Go To item follows g_app.wordWrap.
UpdateMenuStates(s) ==
    [s EXCEPT !.win.gotoItem = ~s.g_app.wordWrap]

\* HandleCommand IDM_EDIT_GOTO: a message box when word wrap is on, else the
\* modal dialog; with texts of one line, OK puts the caret at 0.
OnEditGoTo(s, answer) ==
    IF s.g_app.wordWrap THEN [opened |-> FALSE, s |-> s]
    ELSE [opened |-> TRUE,
          s |-> IF answer = "ok" THEN [s EXCEPT !.editSel = <<0, 0>>] ELSE s]

\* wWinMain and WM_CREATE of a new process, reg being the registry it finds:
\* g_app zeroed and given its defaults, the edit control and the status bar
\* created, the stored word wrap applied.
OnCreate(reg, readFails, allocFails, regFails) ==
    LET s0 == [editText |-> <<>>, editSel |-> <<0, 0>>, editModify |-> FALSE,
               g_app |-> AppDefaults, win |-> WinDefaults, registry |-> reg]
        s1 == ToggleStatusBar(CreateEditControl(s0), TRUE)
    IN IF LoadWordWrapSetting(reg, readFails)
       THEN SetWordWrap(s1, TRUE, allocFails, regFails)
       ELSE s1

(***************************************************************************)
(* SpecSettings: a document and the settings commands, the window closed   *)
(* and the program started again.                                          *)
(***************************************************************************)
SettingsTexts == {<<>>, <<65, 98>>}

InitSettings ==
    /\ editText \in SettingsTexts
    /\ editSel \in {<<0, 0>>, <<0, Len(editText)>>, <<Len(editText), Len(editText)>>}
    /\ editModify \in BOOLEAN
    /\ g_app = [AppDefaults EXCEPT !.modified = editModify]
    /\ disk = [p \in Paths |-> NoFile]
    /\ win = WinDefaults
    /\ registry = NoRegistry
    /\ call = [fn |-> "none", step |-> 0]

\* The state s a settings handler leaves, with the record of the call.
UiLeaves(fn, s, more) ==
    /\ win.main
    /\ call.step < MaxSteps
    /\ \E r \in {s} :
         /\ editText' = r.editText
         /\ editSel' = r.editSel
         /\ editModify' = r.editModify
         /\ g_app' = r.g_app
         /\ win' = r.win
         /\ registry' = r.registry
    /\ call' = [fn |-> fn, before |-> Ui, step |-> call.step + 1] @@ more
    /\ UNCHANGED disk

WordWrapCommand ==
    /\ Running
    /\ \E allocFails \in BOOLEAN, regFails \in BOOLEAN :
           /\ allocFails => ~regFails
           /\ UiLeaves("SetWordWrap",
                       SetWordWrap(Ui, ~g_app.wordWrap, allocFails, regFails),
                       [enabled |-> ~g_app.wordWrap, allocFails |-> allocFails,
                        regFails |-> regFails])

\* SetWordWrap asked for the setting in effect.
WordWrapSame ==
    /\ Running
    /\ UiLeaves("SetWordWrap", SetWordWrap(Ui, g_app.wordWrap, FALSE, FALSE),
                [enabled |-> g_app.wordWrap, allocFails |-> FALSE, regFails |-> FALSE])

StatusBarCommand ==
    /\ Running
    /\ UiLeaves("ToggleStatusBar", ToggleStatusBar(Ui, ~g_app.statusVisible), NoMore)

FontCommand ==
    /\ Running
    /\ \E choice \in Fonts \cup {0}, createFails \in BOOLEAN :
           /\ choice = 0 => ~createFails
           /\ UiLeaves("DoSelectFont", DoSelectFont(Ui, choice, createFails), NoMore)

InitMenuPopup ==
    /\ Running
    /\ UiLeaves("UpdateMenuStates", UpdateMenuStates(Ui), NoMore)

GoToCommand ==
    /\ Running
    /\ \E answer \in {"ok", "cancel"} :
           \E r \in {OnEditGoTo(Ui, answer)} :
               /\ ~r.opened => answer = "cancel"
               /\ UiLeaves("IDM_EDIT_GOTO", r.s, [opened |-> r.opened])

\* The program started again after the window was destroyed.  atExit is
\* what the settings were when the last run ended.
Launch ==
    /\ ~win.main
    /\ call.step < MaxSteps
    /\ \E readFails \in BOOLEAN, allocFails \in BOOLEAN, regFails \in BOOLEAN :
         /\ ~LoadWordWrapSetting(registry, readFails) => (~allocFails /\ ~regFails)
         /\ ~registry.key => ~readFails
         /\ allocFails => ~regFails
         /\ \E r \in {OnCreate(registry, readFails, allocFails, regFails)} :
              /\ editText' = r.editText
              /\ editSel' = r.editSel
              /\ editModify' = r.editModify
              /\ g_app' = r.g_app
              /\ win' = r.win
              /\ registry' = r.registry
              /\ call' = [fn |-> "wWinMain", before |-> Ui, step |-> call.step + 1,
                          readFails |-> readFails, allocFails |-> allocFails,
                          regFails |-> regFails,
                          atExit |-> [wordWrap |-> g_app.wordWrap,
                                      statusVisible |-> g_app.statusVisible,
                                      hFont |-> g_app.hFont]]
    /\ UNCHANGED disk

NextSettings ==
    \/ WordWrapCommand
    \/ WordWrapSame
    \/ StatusBarCommand
    \/ FontCommand
    \/ InitMenuPopup
    \/ GoToCommand
    \/ Close
    \/ Launch

SpecSettings == InitSettings /\ [][NextSettings]_vars

\* C21: the word wrap setting, the status bar visibility and the font in
\* effect when the program exits are those in effect after the next launch.
C21_SettingsPersist ==
    call.fn = "wWinMain" =>
        /\ g_app.wordWrap = call.atExit.wordWrap
        /\ g_app.statusVisible = call.atExit.statusVisible
        /\ g_app.hFont = call.atExit.hFont

\* With the registry readable and writable and no allocation failing in
\* either run, the word wrap setting is the one the last run ended with.
WordWrapPersists ==
    (/\ call.fn = "wWinMain"
     /\ ~call.readFails /\ ~call.allocFails /\ ~call.regFails
     /\ call.before.registry.key
     /\ call.before.registry.WordWrap = (IF call.atExit.wordWrap THEN 1 ELSE 0))
    => g_app.wordWrap = call.atExit.wordWrap

\* A run that ended with word wrap on, stored, starts the next with it on.
WordWrapRestored ==
    /\ call.fn = "wWinMain"
    /\ call.atExit.wordWrap
    /\ g_app.wordWrap
    /\ win.editWraps

\* With nothing failing, a run that ended with the status bar hidden and a
\* font chosen is followed by one with the status bar shown and no font.
StatusBarAndFontForgotten ==
    /\ call.fn = "wWinMain"
    /\ ~call.readFails /\ ~call.allocFails /\ ~call.regFails
    /\ ~call.atExit.statusVisible
    /\ call.atExit.hFont = 2
    /\ g_app.statusVisible
    /\ g_app.hFont = 0

\* C22: the Go To dialog is never opened while word wrap is on, and in every
\* state the Go To menu item is enabled exactly when word wrap is off.
C22_GoToFollowsWordWrap ==
    /\ (call.fn = "IDM_EDIT_GOTO" /\ call.opened) => ~call.before.g_app.wordWrap
    /\ win.main => (win.gotoItem <=> ~g_app.wordWrap)

\* The command itself never opens the dialog while g_app.wordWrap is set.
GoToRefusedWhileWrapped ==
    (call.fn = "IDM_EDIT_GOTO" /\ call.before.g_app.wordWrap) => ~call.opened

\* After a SetWordWrap that ran to its end and after UpdateMenuStates the
\* Go To item is enabled exactly when word wrap is off.
GoToItemFollowsCompletedToggle ==
    (\/ call.fn = "UpdateMenuStates"
     \/ call.fn = "SetWordWrap" /\ ~call.allocFails
                                /\ call.enabled # call.before.g_app.wordWrap)
    => (win.gotoItem <=> ~g_app.wordWrap)

\* Word wrap asked for, GetEditText failing: the flag is set, the Go To item
\* is still enabled and the edit control still scrolls horizontally.
GoToEnabledWhileWrapped ==
    /\ call.fn = "SetWordWrap"
    /\ call.allocFails
    /\ g_app.wordWrap
    /\ win.gotoItem
    /\ ~win.editWraps

\* The handlers that start with PromptSaveChanges.
PromptingCalls == {"DoFileOpen", "DoFileNew", "WM_DROPFILES", "WM_CLOSE"}

\* The save PromptSaveChanges made succeeded: the document it left is
\* unmodified and its file exists.
PromptSaved(q) ==
    /\ ~q.st.g_app.modified
    /\ q.st.g_app.currentPath # ""
    /\ q.st.disk[q.st.g_app.currentPath].exists

\* C23: a document whose modified flag is set is replaced, or its window
\* destroyed, only after the user answered No or a save succeeded; after
\* Cancel, or Yes with a save that failed or was cancelled, the document
\* (text, modify flag, path, modified flag, encoding) and the window are as
\* they were.
C23_NoSilentDiscard ==
    (call.fn \in PromptingCalls /\ call.before.g_app.modified) =>
        /\ call.prompt.ret =>
              \/ call.answer = "no"
              \/ call.answer = "yes" /\ PromptSaved(call.prompt)
        /\ ~call.prompt.ret =>
              /\ editText = call.before.editText
              /\ editModify = call.before.editModify
              /\ g_app = call.before.g_app
              /\ win.main

\* After Cancel, or Yes with a save that failed or was cancelled, the text
\* is the one before, both flags still say modified and the window exists.
UnsavedChangesKept ==
    (call.fn \in PromptingCalls /\ call.before.g_app.modified /\ ~call.prompt.ret) =>
        /\ editText = call.before.editText
        /\ editModify = call.before.editModify
        /\ g_app.modified
        /\ g_app.encoding = call.before.g_app.encoding
        /\ win.main

\* A modified document is replaced or its window destroyed only after No or
\* a successful save.
DiscardOnlyAfterNoOrSave ==
    (/\ call.fn \in PromptingCalls
     /\ call.before.g_app.modified
     /\ \/ ~win.main
        \/ editText # call.before.editText
        \/ ~g_app.modified)
    => \/ call.answer = "no"
       \/ call.answer = "yes" /\ PromptSaved(call.prompt)

\* Closing an untitled modified document, Yes, a.txt chosen, the save
\* failing: the window stays and the text is kept, but the document is now
\* named a.txt.
FailedSaveOnCloseRenames ==
    /\ call.fn = "WM_CLOSE"
    /\ call.before.g_app.modified
    /\ call.before.g_app.currentPath = ""
    /\ call.answer = "yes"
    /\ ~call.ret
    /\ win.main
    /\ editText = call.before.editText
    /\ g_app.currentPath = "a.txt"

(***************************************************************************)
(* The Find and Replace dialogs.  A dialog is a window with a handle 1, 2, *)
(* ...; win.findDlg and win.replaceDlg are the dialogs that exist.         *)
(***************************************************************************)

\* The handle CreateDialog gives a new window: one no existing window has.
NewHandle(w) ==
    CHOOSE h \in 1..(Cardinality(w.findDlg \cup w.replaceDlg) + 1) :
        /\ h \notin w.findDlg \cup w.replaceDlg
        /\ \A k \in 1..(h - 1) : k \in w.findDlg \cup w.replaceDlg

\* ShowFindDialog; created is whether FindTextW creates the dialog (else it
\* returns NULL).
ShowFindDialog(s, created) ==
    IF s.g_app.hFindDlg # 0 THEN s
    ELSE IF ~created THEN [s EXCEPT !.g_app.hFindDlg = 0]
    ELSE [s EXCEPT !.g_app.hFindDlg = NewHandle(s.win),
                   !.win.findDlg = @ \cup {NewHandle(s.win)}]

\* ShowReplaceDialog; created as above for ReplaceTextW.
ShowReplaceDialog(s, created) ==
    IF s.g_app.hReplaceDlg # 0 THEN s
    ELSE IF ~created THEN [s EXCEPT !.g_app.hReplaceDlg = 0]
    ELSE [s EXCEPT !.g_app.hReplaceDlg = NewHandle(s.win),
                   !.win.replaceDlg = @ \cup {NewHandle(s.win)}]

\* EM_REPLACESEL: the selection [a, b) is replaced by repl, the caret goes
\* after it, the modify flag is set and EN_CHANGE reaches the parent, which
\* sets g_app.modified.
ReplaceSel(s, repl) ==
    LET a == s.editSel[1]
        b == s.editSel[2]
        t == s.editText
    IN [s EXCEPT !.editText = SubSeq(t, 1, a) \o repl \o SubSeq(t, b + 1, Len(t)),
                 !.editSel = <<a + Len(repl), a + Len(repl)>>,
                 !.editModify = TRUE,
                 !.g_app.modified = TRUE]

\* HandleFindReplace.  lpfr is the message of the dialog: cmd the FR_ bit of
\* the button, down and matchCase the flags, findWhat and replaceWith the
\* texts of its boxes (hasReplace: lpstrReplaceWith is not NULL).  failAt is
\* the allocation that fails in FindInEdit or ReplaceAllOccurrences.  The
\* result is the state left (s) and the message box shown (message; "" for
\* none, the count for Replace All).
HandleFindReplace(s, lpfr, failAt) ==
    IF lpfr.cmd = "FR_DIALOGTERM"
    THEN [s |-> [s EXCEPT !.g_app.hFindDlg = 0, !.g_app.hReplaceDlg = 0],
          message |-> ""]
    ELSE
      LET s1 == [s EXCEPT
                   !.g_app.findFlags = [down |-> lpfr.down, matchCase |-> lpfr.matchCase],
                   !.g_app.findText = IF Len(lpfr.findWhat) > 0 THEN lpfr.findWhat ELSE @,
                   !.g_app.replaceText = IF lpfr.hasReplace THEN lpfr.replaceWith ELSE @]
          start == s1.editSel[1]
          end == s1.editSel[2]
          notFound == [s |-> s1, message |-> "Cannot find the text."]
      IN
      IF lpfr.cmd = "FR_FINDNEXT"
      THEN CHOOSE out \in
             {IF r.ret
              THEN [s |-> [s1 EXCEPT !.editSel = <<r.outStart, r.outEnd>>],
                    message |-> ""]
              ELSE notFound :
                 r \in {FindInEdit(s1.editText, s1.g_app.findText, lpfr.matchCase,
                                   lpfr.down, IF lpfr.down THEN end ELSE start,
                                   0, 0, failAt)}} : TRUE
      ELSE IF lpfr.cmd = "FR_REPLACE"
      THEN CHOOSE out \in
             {IF r.ret
              THEN [s |-> ReplaceSel([s1 EXCEPT !.editSel = <<r.outStart, r.outEnd>>],
                                     s1.g_app.replaceText),
                    message |-> ""]
              ELSE notFound :
                 r \in {FindInEdit(s1.editText, s1.g_app.findText, lpfr.matchCase,
                                   lpfr.down, start, 0, 0, failAt)}} : TRUE
      ELSE IF lpfr.cmd = "FR_REPLACEALL"
      THEN CHOOSE out \in
             {[s |-> IF r.committed
                     THEN [SetWindowTextW(s1, r.result) EXCEPT !.editModify = TRUE,
                                                               !.g_app.modified = TRUE]
                     ELSE s1,
               message |-> r.ret] :
                 r \in {ReplaceAllOccurrences(s1.editText, s1.g_app.findText,
                                              s1.g_app.replaceText, lpfr.matchCase,
                                              failAt)}} : TRUE
      ELSE [s |-> s1, message |-> ""]

\* DoFindNext (F3): the Find dialog when there is no find text yet.  ret is
\* the BOOL returned.
DoFindNext(s, reverse, created, failAt) ==
    IF Len(s.g_app.findText) = 0
    THEN [s |-> ShowFindDialog(s, created), ret |-> FALSE]
    ELSE LET matchCase == s.g_app.findFlags.matchCase
             down == IF reverse THEN ~s.g_app.findFlags.down ELSE s.g_app.findFlags.down
         IN CHOOSE out \in
              {IF r.ret
               THEN [s |-> [s EXCEPT !.editSel = <<r.outStart, r.outEnd>>], ret |-> TRUE]
               ELSE [s |-> s, ret |-> FALSE] :
                  r \in {FindInEdit(s.editText, s.g_app.findText, matchCase, down,
                                    IF down THEN s.editSel[2] ELSE s.editSel[1],
                                    0, 0, failAt)}} : TRUE

(***************************************************************************)
(* SpecDialogs: the Find and Replace dialogs opened and closed, Find Next  *)
(* pressed in them, and F3.                                                *)
(***************************************************************************)
FindTexts == {<<97, 97, 97>>, <<97, 98, 65>>}
FindWhats == {<<97>>, <<97, 97>>, <<98>>}
ReplaceWiths == {<<>>, <<66>>}

\* What the user enters in the dialogs.
Boxes == [findWhat : FindWhats, replaceWith : ReplaceWiths, down : BOOLEAN,
          matchCase : BOOLEAN]

InitDialogs ==
    /\ editText \in FindTexts
    /\ editSel = <<0, 0>>
    /\ editModify = FALSE
    /\ g_app = AppDefaults
    /\ disk = [p \in Paths |-> NoFile]
    /\ \E b \in Boxes :
         /\ b.replaceWith = <<>>
         /\ ~b.matchCase
         /\ win = [WinDefaults EXCEPT !.box = b]
    /\ registry = NoRegistry
    /\ call = [fn |-> "none", step |-> 0]

\* What a Find Next adds to the record of the call: the find text, the case
\* mode and the direction it ran with, whether it selected an occurrence, and
\* the occurrences selected by the Find Next calls made one after the other
\* with these (seenBefore: without this call).
FindNextRun(s, down, found) ==
    LET same == /\ call.fn \in {"FR_FINDNEXT", "DoFindNext"}
                /\ call.needle = s.g_app.findText
                /\ call.down = down
                /\ call.matchCase = s.g_app.findFlags.matchCase
        before == IF same THEN call.seen ELSE {}
    IN [needle |-> s.g_app.findText, down |-> down,
        matchCase |-> s.g_app.findFlags.matchCase,
        found |-> found, seenBefore |-> before,
        seen |-> IF found THEN before \cup {s.editSel[1]} ELSE before]

\* The message a dialog sends for a button: its flags and its boxes; a Find
\* dialog has no replacement box.
ButtonMessage(cmd, hasReplace) ==
    [cmd |-> cmd, down |-> win.box.down, matchCase |-> win.box.matchCase,
     findWhat |-> win.box.findWhat, hasReplace |-> hasReplace,
     replaceWith |-> IF hasReplace THEN win.box.replaceWith ELSE <<>>]

FindCommand ==
    /\ Running
    /\ \E created \in BOOLEAN :
        /\ g_app.hFindDlg # 0 => created
        /\ UiLeaves("ShowFindDialog", ShowFindDialog(Ui, created), NoMore)

ReplaceCommand ==
    /\ Running
    /\ \E created \in BOOLEAN :
        /\ g_app.hReplaceDlg # 0 => created
        /\ UiLeaves("ShowReplaceDialog", ShowReplaceDialog(Ui, created), NoMore)

\* A dialog is closed by the user: the window goes and FR_DIALOGTERM is sent.
DialogClosed ==
    /\ Running
    /\ \E h \in win.findDlg \cup win.replaceDlg :
        \E r \in {HandleFindReplace([Ui EXCEPT !.win.findDlg = @ \ {h},
                                               !.win.replaceDlg = @ \ {h}],
                                    [cmd |-> "FR_DIALOGTERM"], 0)} :
            UiLeaves("FR_DIALOGTERM", r.s, [closed |-> h])

\* Find Next pressed in a Find dialog or in a Replace dialog.
DialogFindNext ==
    /\ Running
    /\ \E hasReplace \in BOOLEAN, failAt \in 0..2 :
        /\ (IF hasReplace THEN win.replaceDlg ELSE win.findDlg) # {}
        /\ \E lpfr \in {ButtonMessage("FR_FINDNEXT", hasReplace)} :
             \E r \in {HandleFindReplace(Ui, lpfr, failAt)} :
                UiLeaves("FR_FINDNEXT", r.s,
                         [lpfr |-> lpfr, failed |-> failAt # 0, message |-> r.message]
                         @@ FindNextRun(r.s, lpfr.down, r.message = ""))

DialogReplace ==
    /\ Running
    /\ win.replaceDlg # {}
    /\ \E failAt \in 0..2 :
         \E lpfr \in {ButtonMessage("FR_REPLACE", TRUE)} :
             \E r \in {HandleFindReplace(Ui, lpfr, failAt)} :
                UiLeaves("FR_REPLACE", r.s,
                         [lpfr |-> lpfr, failed |-> failAt # 0, message |-> r.message])

DialogReplaceAll ==
    /\ Running
    /\ win.replaceDlg # {}
    /\ \E failAt \in 0..4 :
         \E lpfr \in {ButtonMessage("FR_REPLACEALL", TRUE)} :
             \E r \in {HandleFindReplace(Ui, lpfr, failAt)} :
                UiLeaves("FR_REPLACEALL", r.s,
                         [lpfr |-> lpfr, failed |-> failAt # 0, message |-> r.message])

\* F3.
FindNextKey ==
    /\ Running
    /\ \E created \in BOOLEAN, failAt \in 0..2 :
        /\ (Len(g_app.findText) # 0 \/ g_app.hFindDlg # 0) => created
        /\ Len(g_app.findText) = 0 => failAt = 0
        /\ \E r \in {DoFindNext(Ui, FALSE, created, failAt)} :
             IF Len(g_app.findText) = 0
             THEN UiLeaves("ShowFindDialog", r.s, NoMore)
             ELSE UiLeaves("DoFindNext", r.s,
                           [failed |-> failAt # 0, ret |-> r.ret]
                           @@ FindNextRun(r.s, g_app.findFlags.down, r.ret))

NextDialogs ==
    \/ FindCommand
    \/ ReplaceCommand
    \/ DialogClosed
    \/ DialogFindNext
    \/ FindNextKey

SpecDialogs == InitDialogs /\ [][NextDialogs]_vars

\* C24: at most one Find dialog and at most one Replace dialog exist, and
\* hFindDlg (hReplaceDlg) is not NULL exactly while the Find (Replace) dialog
\* exists; asking for a dialog that exists creates none.
C24_OneDialogEach ==
    /\ Cardinality(win.findDlg) <= 1
    /\ Cardinality(win.replaceDlg) <= 1
    /\ g_app.hFindDlg # 0 <=> win.findDlg # {}
    /\ g_app.hReplaceDlg # 0 <=> win.replaceDlg # {}
    /\ (call.fn = "ShowFindDialog" /\ call.before.win.findDlg # {}) =>
            win.findDlg = call.before.win.findDlg
    /\ (call.fn = "ShowReplaceDialog" /\ call.before.win.replaceDlg # {}) =>
            win.replaceDlg = call.before.win.replaceDlg

\* A stored handle is always the handle of a dialog of its kind that exists.
HandlesAreLive ==
    /\ g_app.hFindDlg # 0 => g_app.hFindDlg \in win.findDlg
    /\ g_app.hReplaceDlg # 0 => g_app.hReplaceDlg \in win.replaceDlg

\* Closing the only dialog that exists leaves both handles NULL and no
\* dialog; opening a dialog while none of its kind has a handle stored
\* stores the handle of the one created.
ClosingTheOnlyDialog ==
    /\ (/\ call.fn = "FR_DIALOGTERM"
        /\ call.before.win.findDlg \cup call.before.win.replaceDlg = {call.closed})
       => /\ g_app.hFindDlg = 0 /\ win.findDlg = {}
          /\ g_app.hReplaceDlg = 0 /\ win.replaceDlg = {}
    /\ (call.fn = "ShowFindDialog" /\ call.before.g_app.hFindDlg # 0)
       => win = call.before.win /\ g_app = call.before.g_app

\* Both dialogs open, the Find dialog closed, Replace asked for again: two
\* Replace dialogs exist.
TwoReplaceDialogs ==
    /\ call.fn = "ShowReplaceDialog"
    /\ Cardinality(win.replaceDlg) = 2

(***************************************************************************)
(* SpecFindNext: a document with a selection and the Replace dialog open   *)
(* (as Ctrl+H leaves it), its boxes filled; Find Next, Replace and Replace *)
(* All pressed, and F3.                                                    *)
(***************************************************************************)
InitFindNext ==
    /\ editText \in FindTexts
    /\ editSel \in {<<a, b>> : a \in {0, 1}, b \in {1, 3}}
    /\ editModify = FALSE
    /\ g_app = [AppDefaults EXCEPT !.hReplaceDlg = 1]
    /\ disk = [p \in Paths |-> NoFile]
    /\ \E b \in Boxes : win = [WinDefaults EXCEPT !.box = b, !.replaceDlg = {1}]
    /\ registry = NoRegistry
    /\ call = [fn |-> "none", step |-> 0]

NextFindNext ==
    \/ DialogFindNext
    \/ DialogReplace
    \/ DialogReplaceAll
    \/ FindNextKey

SpecFindNext == InitFindNext /\ [][NextFindNext]_vars

\* The selection of state s is an occurrence of the needle.
SelectionIsOccurrence(s, needle, matchCase) ==
    /\ s.editSel[2] - s.editSel[1] = Len(needle)
    /\ OccursAt(s.editText, needle, matchCase, s.editSel[1])

\* The text of s with its selection replaced by repl.
SelectionReplaced(s, repl) ==
    SubSeq(s.editText, 1, s.editSel[1]) \o repl
        \o SubSeq(s.editText, s.editSel[2] + 1, Len(s.editText))

\* C25: in either direction, Replace changes the document only when the
\* selected text is an occurrence of the find text, and then replaces exactly
\* the selected range, every code unit outside it staying as it was.
C25_ReplaceSelectionOnly ==
    call.fn = "FR_REPLACE" =>
        /\ editText # call.before.editText =>
              SelectionIsOccurrence(call.before, call.lpfr.findWhat, call.lpfr.matchCase)
        /\ (call.message = "" /\ SelectionIsOccurrence(call.before, call.lpfr.findWhat,
                                                       call.lpfr.matchCase))
           => editText = SelectionReplaced(call.before, call.lpfr.replaceWith)

\* Searching down with the selection an occurrence and no allocation
\* failing, Replace replaces exactly the selection.
ReplaceDownOnOccurrence ==
    (/\ call.fn = "FR_REPLACE"
     /\ call.lpfr.down
     /\ ~call.failed
     /\ SelectionIsOccurrence(call.before, call.lpfr.findWhat, call.lpfr.matchCase))
    => /\ call.message = ""
       /\ editText = SelectionReplaced(call.before, call.lpfr.replaceWith)
       /\ g_app.modified

\* What Replace changes is always one occurrence of the find text, replaced
\* by the replacement text.
ReplaceChangesOneOccurrence ==
    (call.fn = "FR_REPLACE" /\ call.message = "") =>
        \E i \in Occurrences(call.before.editText, call.lpfr.findWhat,
                             call.lpfr.matchCase) :
            editText = SelectionReplaced(
                           [call.before EXCEPT
                               !.editSel = <<i, i + Len(call.lpfr.findWhat)>>],
                           call.lpfr.replaceWith)

\* The "a" of "abA" selected, find text "b": Replace turns the text to "aBA".
ReplaceWithoutSelection ==
    /\ call.fn = "FR_REPLACE"
    /\ call.before.editText = <<97, 98, 65>>
    /\ call.before.editSel = <<0, 1>>
    /\ call.lpfr.findWhat = <<98>>
    /\ call.lpfr.down
    /\ editText = <<97, 66, 65>>

\* The second "aa" of "aaa" selected, find text "aa", searching up: Replace
\* replaces the first "aa" and the text is "Ba".
ReplaceUpHitsEarlier ==
    /\ call.fn = "FR_REPLACE"
    /\ call.before.editText = <<97, 97, 97>>
    /\ call.before.editSel = <<1, 3>>
    /\ call.lpfr.findWhat = <<97, 97>>
    /\ ~call.lpfr.down
    /\ editText = <<66, 97>>

FindNextCalls == {"FR_FINDNEXT", "DoFindNext"}

\* C26: Find Next repeated in one direction on an unchanged document selects
\* every occurrence of the find text, overlapping ones included, before it
\* selects again one it has selected.
C26_FindNextVisitsAll ==
    (/\ call.fn \in FindNextCalls
     /\ call.found
     /\ editSel[1] \in call.seenBefore)
    => call.seenBefore = Occurrences(editText, call.needle, call.matchCase)

\* Searching up, and searching down when no two occurrences overlap, every
\* occurrence is selected before one is selected again.
FindNextVisitsAllButOverlaps ==
    (/\ call.fn \in FindNextCalls
     /\ call.found
     /\ editSel[1] \in call.seenBefore
     /\ \/ ~call.down
        \/ \A i, j \in Occurrences(editText, call.needle, call.matchCase) :
              i < j => i + Len(call.needle) <= j)
    => call.seenBefore = Occurrences(editText, call.needle, call.matchCase)

\* "aa" in "aaa", searching down: offset 0 is selected a second time and
\* offset 1 never was.
OverlappingOccurrenceSkipped ==
    /\ call.fn \in FindNextCalls
    /\ call.down
    /\ editText = <<97, 97, 97>>
    /\ call.needle = <<97, 97>>
    /\ call.found
    /\ editSel = <<0, 2>>
    /\ call.seenBefore = {0}

\* C27: for every text and every encoding but UTF16BE, DetectEncoding on the
\* bytes a successful save wrote gives the encoding the document was saved
\* with.
C27_SaveReloadEncoding ==
    (SaveDone /\ call.encoding # ENC_UTF16BE) =>
        DetectEncoding(disk["a.txt"].bytes) = call.encoding

\* It does for UTF-8 and UTF-16LE, which write a mark, and for an ANSI save
\* with a code unit above 0x7F alone among ASCII (a byte that is not UTF-8).
MarkedSaveReloadsSame ==
    (/\ SaveDone
     /\ \/ call.encoding \in {ENC_UTF8, ENC_UTF16LE}
        \/ call.encoding = ENC_ANSI /\ call.text \in {<<233>>, <<65, 233>>, <<233, 65>>})
    => DetectEncoding(disk["a.txt"].bytes) = call.encoding

\* "A" saved as ANSI is the byte 41, which DetectEncoding takes for UTF-8.
AnsiSaveReloadsAsUtf8 ==
    /\ SaveDone
    /\ call.encoding = ENC_ANSI
    /\ call.text = <<65>>
    /\ disk["a.txt"].bytes = <<65>>
    /\ DetectEncoding(disk["a.txt"].bytes) = ENC_UTF8

\* C28: after SetWordWrap the text, the selection, g_app.modified and the
\* edit control's modify flag are what they were before, and SetWordWrap
\* called with the setting in effect changes nothing.
C28_WordWrapKeepsDocument ==
    call.fn = "SetWordWrap" =>
        /\ editText = call.before.editText
        /\ editSel = call.before.editSel
        /\ g_app.modified = call.before.g_app.modified
        /\ editModify = call.before.editModify
        /\ call.enabled = call.before.g_app.wordWrap => Ui = call.before

\* The text, the selection and g_app.modified are kept, and SetWordWrap
\* called with the setting in effect changes nothing.
WordWrapKeepsTextAndSelection ==
    call.fn = "SetWordWrap" =>
        /\ editText = call.before.editText
        /\ editSel = call.before.editSel
        /\ g_app.modified = call.before.g_app.modified
        /\ call.enabled = call.before.g_app.wordWrap => Ui = call.before

\* A modified document after a completed toggle: g_app.modified is still
\* set, the modify flag of the new edit control is clear.
ModifyFlagLost ==
    /\ call.fn = "SetWordWrap"
    /\ ~call.allocFails
    /\ call.before.editModify
    /\ call.before.editText = <<65, 98>>
    /\ editText = <<65, 98>>
    /\ g_app.modified
    /\ ~editModify

(***************************************************************************)
(* SpecSize: the size arithmetic of LoadTextFile.  A size is the pair      *)
(* <<hi, lo>> of its 16-bit halves (hi * 65536 + lo), hi above 65535 for a *)
(* LONGLONG beyond 32 bits; a DWORD has hi in 0..65535.                    *)
(***************************************************************************)
Half == 65536

UINT_MAX == <<Half - 1, Half - 1>>

Greater(a, b) == a[1] > b[1] \/ (a[1] = b[1] /\ a[2] > b[2])

\* (DWORD)size.QuadPart
ToDWORD(n) == <<n[1] % Half, n[2]>>

\* bytes + k in DWORD arithmetic, k below 65536.
AddDWORD(n, k) == <<(n[1] + (n[2] + k) \div Half) % Half, (n[2] + k) % Half>>

\* The size check, the allocation and the read request of LoadTextFile for a
\* file of the given size: allocated is the size HeapAlloc is asked for,
\* asked the count ReadFile is given.
ReadRequest(size, fault) ==
    IF fault = "size" \/ Greater(size, UINT_MAX)
    THEN [accepted |-> FALSE, reads |-> FALSE, bytes |-> <<0, 0>>,
          allocated |-> <<0, 0>>, asked |-> <<0, 0>>]
    ELSE LET bytes == ToDWORD(size) IN
         [accepted |-> TRUE, reads |-> fault # "alloc_buffer", bytes |-> bytes,
          allocated |-> AddDWORD(bytes, 3),
          asked |-> IF fault = "alloc_buffer" THEN <<0, 0>> ELSE bytes]

FileSizes ==
    {<<0, lo>> : lo \in 0..SizeWindow}
    \cup {<<Half - 1, Half - 1 - d>> : d \in 0..SizeWindow}
    \cup {<<Half, lo>> : lo \in 0..SizeWindow}

\* A file of the given size, its content left out.
SizedFile(size) == [exists |-> TRUE, bytes |-> <<>>, size |-> size]

InitSize ==
    /\ ShellAtRest
    /\ editText = <<>>
    /\ editModify = FALSE
    /\ g_app = AppDefaults
    /\ \E size \in FileSizes :
         disk = [p \in Paths |-> IF p = "a.txt" THEN SizedFile(size) ELSE NoFile]
    /\ call = NoCall

CallReadRequest ==
    /\ call.fn = "none"
    /\ \E fault \in {"none", "size", "alloc_buffer"} :
         \E r \in {ReadRequest(disk["a.txt"].size, fault)} :
            call' = [fn |-> "ReadRequest", size |-> disk["a.txt"].size, fault |-> fault,
                     accepted |-> r.accepted, reads |-> r.reads, bytes |-> r.bytes,
                     allocated |-> r.allocated, asked |-> r.asked]
    /\ UNCHANGED <<editText, editModify, g_app, disk>>
    /\ ShellUnchanged

NextSize == CallReadRequest

SpecSize == InitSize /\ [][NextSize]_vars

\* C29: for every size LoadTextFile accepts (0 to UINT_MAX), the buffer it
\* allocates holds at least the bytes it asks ReadFile for, and size + 3 does
\* not wrap to a smaller value.
C29_BufferHoldsRead ==
    (call.fn = "ReadRequest" /\ call.accepted) =>
        /\ ~Greater(call.asked, call.allocated)
        /\ Greater(call.allocated, call.bytes)

\* It does hold for the sizes up to UINT_MAX - 3, and every size above
\* UINT_MAX is refused.
BufferHoldsReadBelowWrap ==
    call.fn = "ReadRequest" =>
        /\ (call.accepted /\ ~Greater(call.size, <<Half - 1, Half - 4>>)) =>
              /\ ~Greater(call.asked, call.allocated)
              /\ call.allocated = <<call.size[1], call.size[2] + 3>>
        /\ Greater(call.size, UINT_MAX) => ~call.accepted

\* A file of UINT_MAX bytes: 2 bytes are allocated, UINT_MAX are asked for.
WrappedAllocation ==
    /\ call.fn = "ReadRequest"
    /\ call.size = UINT_MAX
    /\ call.reads
    /\ call.allocated = <<0, 2>>
    /\ call.asked = UINT_MAX

=============================================================================
